---- MODULE Spec2Model ----
(***************************************************************************)
(* One client of the collaborative canvas (collab_collaborativeCanvas.js): *)
(* its scene (objects, strokes, connectors), selection and hover state,    *)
(* gestures, clipboard, undo/redo stacks, the events it publishes and the  *)
(* inbound platform events it handles.                                     *)
(*                                                                         *)
(* JavaScript object references are modelled with a heap: objects and      *)
(* connectors are sequences of references, selectedObject, hoveredObject,  *)
(* ... hold references, so that a selection can outlive the array entry it *)
(* pointed at (a stale reference) and in-place mutation is seen through    *)
(* every alias.  JSON.parse(JSON.stringify(v)) is a copy into a new cell.  *)
(* Strokes are never mutated after they are pushed and are kept by value.  *)
(***************************************************************************)
EXTENDS Integers, Sequences, FiniteSets, TLC

VARIABLES
    objects,            \* this.objects: sequence of object references
    connectors,         \* this.connectors: sequence of connector references
    strokes,            \* this.strokes: sequence of stroke records
    oheap,              \* object reference -> object record
    cheap,              \* connector reference -> connector record
    selectedObject,     \* reference or NoRef
    selectedConnector,  \* reference or NoRef
    selectedObjects,    \* sequence of object references
    selectedConnectors, \* sequence of connector references
    hoveredObject,      \* reference or NoRef
    hoveredConnector,   \* reference or NoRef
    hoveredStroke,      \* sequence holding at most one stroke record
    currentTool,
    gesture,            \* isDragging, dragStartState, isDrawing, currentStroke, ...
    editing,            \* isEditingText, editingObject, previousTextValue
    undoStack,
    redoStack,
    clipboard,
    idKind,             \* ids handed out by generateId and what they were used for
    errorMessage,
    outbox,             \* events published by the handler that ran last
    saves,              \* state blobs saved by the handler that ran last
    last,               \* the handler that ran last and its inputs
    hist,               \* bookkeeping for the history properties
    steps,
    peer,               \* a second client of the same canvas: its component state
    wire,               \* published events not yet delivered, per direction
    isLoading,
    toasts,             \* notifications shown by the handler that ran last
    presence            \* the cursor channel: its fields, the clock, calls under way

vars == <<objects, connectors, strokes, oheap, cheap, selectedObject,
          selectedConnector, selectedObjects, selectedConnectors,
          hoveredObject, hoveredConnector, hoveredStroke, currentTool,
          gesture, editing, undoStack, redoStack, clipboard, idKind,
          errorMessage, outbox, saves, last, hist, steps, peer, wire,
          isLoading, toasts, presence>>

----------------------------------------------------------------------------
(* Bounds of the model *)

MaxSteps == 3

MaxLocalIds == 6

MaxRef == 6

(* Program constant: recordAction keeps at most this many undo entries *)
UndoLimit == 5

(* The history length the README promises *)
ReadmeHistory == 50

NoRef == 0

Refs == 1..MaxRef

Me == "me"

Peer == "peer"

ThisCanvas == "canvas"

OtherCanvas == "other"

RemoteObjIds == {101}

RemoteStrokeIds == {201}

RemoteConnIds == {301}

LocalIds == 1..MaxLocalIds

----------------------------------------------------------------------------
(* Generic helpers *)

Range(s) == {s[i] : i \in 1..Len(s)}

SeqFilter(s, Keep(_)) == SelectSeq(s, Keep)

RECURSIVE SeqMapIds(_, _)
SeqMapIds(s, heap) ==
    IF s = <<>> THEN <<>> ELSE <<heap[Head(s)].id>> \o SeqMapIds(Tail(s), heap)

(* Object.assign(target, source) / {...target, ...source}: every field of  *)
(* source overwrites or is added to target.                                *)
Merge(target, source) ==
    [f \in (DOMAIN target) \cup (DOMAIN source) |->
        IF f \in DOMAIN source THEN source[f] ELSE target[f]]

----------------------------------------------------------------------------
(* Entities *)

NoAnchor == [objectId |-> 0, position |-> "none"]

(* the positions 100 + Math.random() * 200 a new sticky is given in the model *)
Positions == {[x |-> 100, y |-> 100], [x |-> 120, y |-> 140]}

BlankObj ==
    [id |-> 0, type |-> "none", x |-> 0, y |-> 0, width |-> 0, height |-> 0,
     color |-> "", text |-> "", zIndex |-> 0, children |-> <<>>,
     connectorIds |-> <<>>]

BlankConn ==
    [id |-> 0, startX |-> 0, startY |-> 0, endX |-> 0, endY |-> 0,
     startAnchor |-> NoAnchor, endAnchor |-> NoAnchor, label |-> "",
     zIndex |-> 0]

(* The program state as one record, so that a method is an operator from   *)
(* state to state and a handler is the composition of the methods it       *)
(* calls.  overflow is set when a bound of the model is exhausted.         *)
State ==
    [objects |-> objects, connectors |-> connectors, strokes |-> strokes,
     oheap |-> oheap, cheap |-> cheap,
     selectedObject |-> selectedObject,
     selectedConnector |-> selectedConnector,
     selectedObjects |-> selectedObjects,
     selectedConnectors |-> selectedConnectors,
     hoveredObject |-> hoveredObject,
     hoveredConnector |-> hoveredConnector,
     hoveredStroke |-> hoveredStroke,
     currentTool |-> currentTool, gesture |-> gesture, editing |-> editing,
     undoStack |-> undoStack, redoStack |-> redoStack,
     clipboard |-> clipboard, idKind |-> idKind,
     errorMessage |-> errorMessage,
     outbox |-> <<>>, saves |-> <<>>, recorded |-> 0, overflow |-> FALSE,
     publishFails |-> FALSE, failed |-> <<>>,
     isLoading |-> isLoading, toasts |-> <<>>, presence |-> presence]

(* The same component while publishEvent rejects every call *)
Offline == [State EXCEPT !.publishFails = TRUE]

(* References the program can still reach *)
ReachO(s) ==
    Range(s.objects) \cup Range(s.selectedObjects)
        \cup {s.selectedObject, s.hoveredObject, s.editing.editingObject}

ReachC(s) ==
    Range(s.connectors) \cup Range(s.selectedConnectors)
        \cup {s.selectedConnector, s.hoveredConnector}

FreeO(s) == Refs \ ReachO(s)

FreeC(s) == Refs \ ReachC(s)

MinOf(S) == CHOOSE m \in S : \A n \in S : m <= n

(* A new JavaScript object holding rec, with the state it was created in.  *)
(* The result is <<state, reference>>.                                     *)
NewObj(s, rec) ==
    IF FreeO(s) = {} THEN <<[s EXCEPT !.overflow = TRUE], NoRef>>
    ELSE LET r == MinOf(FreeO(s))
         IN  <<[s EXCEPT !.oheap = [s.oheap EXCEPT ![r] = rec]], r>>

NewConn(s, rec) ==
    IF FreeC(s) = {} THEN <<[s EXCEPT !.overflow = TRUE], NoRef>>
    ELSE LET r == MinOf(FreeC(s))
         IN  <<[s EXCEPT !.cheap = [s.cheap EXCEPT ![r] = rec]], r>>

(* o.id for a reference, 0 for null (the code tests the reference first) *)
OId(s, r) == IF r = NoRef THEN 0 ELSE s.oheap[r].id

CId(s, r) == IF r = NoRef THEN 0 ELSE s.cheap[r].id

(* this.objects.find(o => o.id === id): first match or NoRef *)
FindObj(s, id) ==
    LET hits == {i \in 1..Len(s.objects) : s.oheap[s.objects[i]].id = id}
    IN  IF hits = {} THEN NoRef ELSE s.objects[MinOf(hits)]

FindConn(s, id) ==
    LET hits == {i \in 1..Len(s.connectors) : s.cheap[s.connectors[i]].id = id}
    IN  IF hits = {} THEN NoRef ELSE s.connectors[MinOf(hits)]

(* this.objects.filter(o => o.id !== id) *)
ObjectsWithout(s, id) ==
    LET Keep(r) == s.oheap[r].id # id IN SelectSeq(s.objects, Keep)

ConnectorsWithout(s, id) ==
    LET Keep(r) == s.cheap[r].id # id IN SelectSeq(s.connectors, Keep)

StrokesWithout(s, id) ==
    LET Keep(k) == k.id # id IN SelectSeq(s.strokes, Keep)

(* generateId: an id never handed out before *)
UnusedIds(s) == {i \in LocalIds : s.idKind[i] = "none"}

GenerateId(s, kind) ==
    IF UnusedIds(s) = {} THEN <<[s EXCEPT !.overflow = TRUE], 0>>
    ELSE LET i == MinOf(UnusedIds(s))
         IN  <<[s EXCEPT !.idKind = [s.idKind EXCEPT ![i] = kind]], i>>

(* getNextZIndex: highest zIndex of objects and connectors plus one *)
(* Mutant: only the objects count *)
GetNextZIndex_objectsOnly(s) ==
    LET zs == {s.oheap[r].zIndex : r \in Range(s.objects)}
    IN  IF zs = {} THEN 1
        ELSE (CHOOSE m \in zs : \A n \in zs : n <= m) + 1

GetNextZIndex(s) ==
    LET zs == {s.oheap[r].zIndex : r \in Range(s.objects)}
                \cup {s.cheap[r].zIndex : r \in Range(s.connectors)}
    IN  IF zs = {} THEN 1
        ELSE (CHOOSE m \in zs : \A n \in zs : n <= m) + 1

----------------------------------------------------------------------------
(* Event publishing: each publishX calls publishEvent at once; a failure   *)
(* is only logged, so the handler's state does not depend on the outcome.  *)

(* Mutant: a rejected object_add takes the object out of the scene again *)
Publish_rollback(s, eventType, payload) ==
    IF s.publishFails
    THEN LET s1 == [s EXCEPT !.failed =
                       Append(@, [eventType |-> eventType, payload |-> payload])]
         IN  IF eventType = "object_add"
             THEN [s1 EXCEPT !.objects = ObjectsWithout(s1, payload.id)]
             ELSE s1
    ELSE [s EXCEPT !.outbox = Append(@, [eventType |-> eventType, payload |-> payload])]

(* try { await publishEvent(...) } catch (error) { console.error(...) }:   *)
(* a rejected call leaves the event in the log only (failed)               *)
Publish(s, eventType, payload) ==
    IF s.publishFails
    THEN [s EXCEPT !.failed = Append(@, [eventType |-> eventType, payload |-> payload])]
    ELSE [s EXCEPT !.outbox = Append(@, [eventType |-> eventType, payload |-> payload])]

publishObjectAdd(s, obj) == Publish(s, "object_add", obj)

publishObjectMove(s, obj) ==
    Publish(s, "object_move", [id |-> obj.id, x |-> obj.x, y |-> obj.y])

publishObjectUpdate(s, obj) == Publish(s, "object_move", obj)

publishObjectResize(s, obj) ==
    Publish(s, "object_resize",
            [id |-> obj.id, x |-> obj.x, y |-> obj.y,
             width |-> obj.width, height |-> obj.height])

publishObjectDelete(s, objectId) == Publish(s, "object_delete", [id |-> objectId])

publishStroke(s, stroke) == Publish(s, "draw_stroke", stroke)

publishStrokeDelete(s, strokeId) == Publish(s, "stroke_delete", [id |-> strokeId])

publishConnectorAdd(s, conn) == Publish(s, "connector_add", conn)

publishConnectorDelete(s, connId) == Publish(s, "connector_delete", [id |-> connId])

publishConnectorUpdate(s, conn) == Publish(s, "connector_update", conn)

publishGroupCreate(s, group) == Publish(s, "group_create", group)

publishGroupUngroup(s, groupId, childIds) ==
    Publish(s, "group_ungroup", [groupId |-> groupId, childIds |-> childIds])

----------------------------------------------------------------------------
(* Undo / redo *)

(* Mutant: the redo stack survives a new action *)
recordAction_keepRedo(s, type, data) ==
    LET pushed == Append(s.undoStack, [type |-> type, data |-> data])
    IN  [s EXCEPT !.undoStack = IF Len(pushed) > UndoLimit THEN Tail(pushed) ELSE pushed,
                  !.recorded = @ + 1]

(* Mutant: the undo stack is never trimmed *)
recordAction_noLimit(s, type, data) ==
    [s EXCEPT !.undoStack = Append(@, [type |-> type, data |-> data]),
              !.redoStack = <<>>,
              !.recorded = @ + 1]

recordAction(s, type, data) ==
    LET pushed == Append(s.undoStack, [type |-> type, data |-> data])
    IN  [s EXCEPT !.undoStack = IF Len(pushed) > UndoLimit THEN Tail(pushed) ELSE pushed,
                  !.redoStack = <<>>,
                  !.recorded = @ + 1]

(* The result of executeUndo / executeRedo: the new state and the data for *)
(* the opposite stack, <<>> standing for null.                             *)
Nothing(s) == <<s, <<>>>>

(* Put a copy of rec into this.objects: JSON copy, push *)
PushObjectCopy(s, rec) ==
    LET a == NewObj(s, rec)
    IN  [a[1] EXCEPT !.objects = Append(@, a[2])]

PushConnectorCopy(s, rec) ==
    LET a == NewConn(s, rec)
    IN  [a[1] EXCEPT !.connectors = Append(@, a[2])]

undoRemoveObject(s, objectId) ==
    LET r == FindObj(s, objectId)
    IN  IF r = NoRef THEN Nothing(s)
        ELSE LET s1 == [s EXCEPT !.objects = ObjectsWithout(s, objectId)]
                 s2 == publishObjectDelete(s1, objectId)
                 s3 == IF OId(s2, s2.selectedObject) = objectId
                       THEN [s2 EXCEPT !.selectedObject = NoRef] ELSE s2
             IN  <<s3, <<[object |-> s.oheap[r]]>>>>

undoRestoreObject(s, rec) ==
    LET s1 == PushObjectCopy(s, rec)
    IN  <<publishObjectAdd(s1, rec), <<[objectId |-> rec.id]>>>>

(* Mutant: a move whose object is gone still hands back data for the      *)
(* opposite stack                                                          *)
undoMoveObject_unguarded(s, data) ==
    LET r == FindObj(s, data.objectId)
    IN  IF r = NoRef THEN <<s, <<data>>>>
        ELSE LET old == s.oheap[r]
                 new == [old EXCEPT !.x = data.previousX, !.y = data.previousY]
                 s1  == [s EXCEPT !.oheap = [@ EXCEPT ![r] = new]]
             IN  <<publishObjectMove(s1, new),
                   <<[objectId |-> old.id, previousX |-> old.x, previousY |-> old.y]>>>>

undoMoveObject(s, data) ==
    LET r == FindObj(s, data.objectId)
    IN  IF r = NoRef THEN Nothing(s)
        ELSE LET old == s.oheap[r]
                 new == [old EXCEPT !.x = data.previousX, !.y = data.previousY]
                 s1  == [s EXCEPT !.oheap = [@ EXCEPT ![r] = new]]
             IN  <<publishObjectMove(s1, new),
                   <<[objectId |-> old.id, previousX |-> old.x, previousY |-> old.y]>>>>

undoResizeObject(s, data) ==
    LET r == FindObj(s, data.objectId)
    IN  IF r = NoRef THEN Nothing(s)
        ELSE LET old == s.oheap[r]
                 new == [old EXCEPT !.x = data.previousX, !.y = data.previousY,
                                    !.width = data.previousWidth,
                                    !.height = data.previousHeight]
                 s1  == [s EXCEPT !.oheap = [@ EXCEPT ![r] = new]]
             IN  <<publishObjectResize(s1, new),
                   <<[objectId |-> old.id, previousX |-> old.x, previousY |-> old.y,
                      previousWidth |-> old.width, previousHeight |-> old.height]>>>>

undoTextObject(s, data) ==
    LET r == FindObj(s, data.objectId)
    IN  IF r = NoRef THEN Nothing(s)
        ELSE LET old == s.oheap[r]
                 new == [old EXCEPT !.text = data.previousText]
                 s1  == [s EXCEPT !.oheap = [@ EXCEPT ![r] = new]]
             IN  <<publishObjectUpdate(s1, new),
                   <<[objectId |-> old.id, previousText |-> old.text]>>>>

undoRemoveConnector(s, connectorId, deselect) ==
    LET r == FindConn(s, connectorId)
    IN  IF r = NoRef THEN Nothing(s)
        ELSE LET s1 == [s EXCEPT !.connectors = ConnectorsWithout(s, connectorId)]
                 s2 == publishConnectorDelete(s1, connectorId)
                 s3 == IF deselect /\ CId(s2, s2.selectedConnector) = connectorId
                       THEN [s2 EXCEPT !.selectedConnector = NoRef] ELSE s2
             IN  <<s3, <<[connector |-> s.cheap[r]]>>>>

undoRestoreConnector(s, rec) ==
    LET s1 == PushConnectorCopy(s, rec)
    IN  <<publishConnectorAdd(s1, rec), <<[connectorId |-> rec.id]>>>>

undoRemoveStroke(s, strokeId) ==
    LET hits == {i \in 1..Len(s.strokes) : s.strokes[i].id = strokeId}
    IN  IF hits = {} THEN Nothing(s)
        ELSE LET stroke == s.strokes[MinOf(hits)]
                 s1 == [s EXCEPT !.strokes = StrokesWithout(s, strokeId)]
             IN  <<publishStrokeDelete(s1, strokeId), <<[stroke |-> stroke]>>>>

undoRestoreStroke(s, stroke) ==
    LET s1 == [s EXCEPT !.strokes = Append(@, stroke)]
    IN  <<publishStroke(s1, stroke), <<[strokeId |-> stroke.id]>>>>

(* Mutant: the children go with the group *)
undoRemoveGroup_withChildren(s, groupId, deselect) ==
    LET r == FindObj(s, groupId)
    IN  IF r = NoRef THEN Nothing(s)
        ELSE LET group == s.oheap[r]
                 gone == {groupId} \cup Range(group.children)
                 Kept(o) == s.oheap[o].id \notin gone
                 s1 == [s EXCEPT !.objects = SelectSeq(@, Kept)]
                 s2 == publishGroupUngroup(s1, groupId, group.children)
             IN  <<s2, <<[group |-> group]>>>>

(* Ungroup: only the group object goes, and a group_ungroup is published *)
undoRemoveGroup(s, groupId, deselect) ==
    LET r == FindObj(s, groupId)
    IN  IF r = NoRef THEN Nothing(s)
        ELSE LET group == s.oheap[r]
                 s1 == [s EXCEPT !.objects = ObjectsWithout(s, groupId)]
                 s2 == publishGroupUngroup(s1, groupId, group.children)
                 s3 == IF deselect /\ OId(s2, s2.selectedObject) = groupId
                       THEN [s2 EXCEPT !.selectedObject = NoRef] ELSE s2
             IN  <<s3, <<[group |-> group]>>>>

undoRestoreGroup(s, group, withChildIds) ==
    LET s1 == PushObjectCopy(s, group)
    IN  <<publishGroupCreate(s1, group),
          <<IF withChildIds
            THEN [groupId |-> group.id, childIds |-> group.children]
            ELSE [groupId |-> group.id]>>>>

(* executeUndo.  The object_style and connector_update cases are left out: *)
(* no call of recordAction passes these types, so no action of either type *)
(* is ever on a stack.                                                     *)
executeUndo(s, action) ==
    CASE action.type = "object_add" -> undoRemoveObject(s, action.data.objectId)
      [] action.type = "object_delete" -> undoRestoreObject(s, action.data.object)
      [] action.type = "object_move" -> undoMoveObject(s, action.data)
      [] action.type = "object_resize" -> undoResizeObject(s, action.data)
      [] action.type = "object_text" -> undoTextObject(s, action.data)
      [] action.type = "connector_add" ->
            undoRemoveConnector(s, action.data.connectorId, TRUE)
      [] action.type = "connector_delete" ->
            undoRestoreConnector(s, action.data.connector)
      [] action.type = "stroke_add" -> undoRemoveStroke(s, action.data.strokeId)
      [] action.type = "stroke_delete" -> undoRestoreStroke(s, action.data.stroke)
      [] action.type = "group_create" ->
            undoRemoveGroup(s, action.data.groupId, TRUE)
      [] action.type = "group_ungroup" ->
            undoRestoreGroup(s, action.data.group, TRUE)
      [] OTHER -> Nothing(s)

(* executeRedo: the removals do not touch the selection *)
executeRedo(s, action) ==
    CASE action.type = "object_add" -> undoRestoreObject(s, action.data.object)
      [] action.type = "object_delete" ->
            LET r == FindObj(s, action.data.objectId)
            IN  IF r = NoRef THEN Nothing(s)
                ELSE <<publishObjectDelete(
                          [s EXCEPT !.objects = ObjectsWithout(s, action.data.objectId)],
                          action.data.objectId),
                       <<[object |-> s.oheap[r]]>>>>
      [] action.type = "object_move" ->
            executeUndo(s, [type |-> "object_move", data |-> action.data])
      [] action.type = "object_resize" ->
            executeUndo(s, [type |-> "object_resize", data |-> action.data])
      [] action.type = "object_text" ->
            executeUndo(s, [type |-> "object_text", data |-> action.data])
      [] action.type = "connector_add" ->
            undoRestoreConnector(s, action.data.connector)
      [] action.type = "connector_delete" ->
            undoRemoveConnector(s, action.data.connectorId, FALSE)
      [] action.type = "stroke_add" -> undoRestoreStroke(s, action.data.stroke)
      [] action.type = "stroke_delete" -> undoRemoveStroke(s, action.data.strokeId)
      [] action.type = "group_create" ->
            undoRestoreGroup(s, action.data.group, FALSE)
      [] action.type = "group_ungroup" ->
            undoRemoveGroup(s, action.data.groupId, FALSE)
      [] OTHER -> Nothing(s)

(* Mutant: the undone action stays on the undo stack *)
undo_notPopped(s) ==
    IF Len(s.undoStack) = 0 THEN s
    ELSE LET action == s.undoStack[Len(s.undoStack)]
             res    == executeUndo(s, action)
         IN  IF res[2] # <<>>
             THEN [res[1] EXCEPT !.redoStack =
                      Append(@, [type |-> action.type, data |-> res[2][1]])]
             ELSE res[1]

undo(s) ==
    IF Len(s.undoStack) = 0 THEN s
    ELSE LET action == s.undoStack[Len(s.undoStack)]
             popped == [s EXCEPT !.undoStack = SubSeq(@, 1, Len(@) - 1)]
             res    == executeUndo(popped, action)
         IN  IF res[2] # <<>>
             THEN [res[1] EXCEPT !.redoStack =
                      Append(@, [type |-> action.type, data |-> res[2][1]])]
             ELSE res[1]

(* Mutant: the action goes back on the undo stack without being redone *)
redo_notExecuted(s) ==
    IF Len(s.redoStack) = 0 THEN s
    ELSE LET action == s.redoStack[Len(s.redoStack)]
         IN  [s EXCEPT !.redoStack = SubSeq(@, 1, Len(@) - 1),
                       !.undoStack = Append(@, action)]

redo(s) ==
    IF Len(s.redoStack) = 0 THEN s
    ELSE LET action == s.redoStack[Len(s.redoStack)]
             popped == [s EXCEPT !.redoStack = SubSeq(@, 1, Len(@) - 1)]
             res    == executeRedo(popped, action)
         IN  IF res[2] # <<>>
             THEN [res[1] EXCEPT !.undoStack =
                      Append(@, [type |-> action.type, data |-> res[2][1]])]
             ELSE res[1]

----------------------------------------------------------------------------
(* Inbound platform events *)

handleRemoteObjectAdd(s, payload) ==
    IF FindObj(s, payload.id) # NoRef THEN s ELSE PushObjectCopy(s, payload)

(* Mutant: an unknown id creates the object *)
handleRemoteObjectMove_upsert(s, payload) ==
    LET r == FindObj(s, payload.id)
    IN  IF r = NoRef THEN PushObjectCopy(s, Merge(BlankObj, payload))
        ELSE [s EXCEPT !.oheap = [@ EXCEPT ![r] = Merge(s.oheap[r], payload)]]

(* Mutant: the payload replaces the object instead of being merged in *)
handleRemoteObjectMove_replace(s, payload) ==
    LET r == FindObj(s, payload.id)
    IN  IF r = NoRef THEN s
        ELSE [s EXCEPT !.oheap = [@ EXCEPT ![r] = Merge(BlankObj, payload)]]

handleRemoteObjectMove(s, payload) ==
    LET r == FindObj(s, payload.id)
    IN  IF r = NoRef THEN s
        ELSE [s EXCEPT !.oheap = [@ EXCEPT ![r] = Merge(s.oheap[r], payload)]]

handleRemoteObjectResize(s, payload) ==
    LET r == FindObj(s, payload.id)
    IN  IF r = NoRef THEN s
        ELSE [s EXCEPT !.oheap = [@ EXCEPT ![r] =
                 [@ EXCEPT !.x = payload.x, !.y = payload.y,
                           !.width = payload.width, !.height = payload.height]]]

(* borderColor and borderWidth are not fields of the model's objects *)
handleRemoteObjectStyle(s, payload) ==
    LET r == FindObj(s, payload.id)
    IN  IF r = NoRef THEN s
        ELSE IF payload.color # ""
             THEN [s EXCEPT !.oheap = [@ EXCEPT ![r] = [@ EXCEPT !.color = payload.color]]]
             ELSE s

handleRemoteObjectDelete(s, payload) ==
    [s EXCEPT !.objects = ObjectsWithout(s, payload.id)]

handleRemoteStroke(s, payload) ==
    IF \E i \in 1..Len(s.strokes) : s.strokes[i].id = payload.id THEN s
    ELSE [s EXCEPT !.strokes = Append(@, payload)]

handleRemoteStrokeDelete(s, payload) ==
    LET s1 == [s EXCEPT !.strokes = StrokesWithout(s, payload.id)]
    IN  IF s1.hoveredStroke # <<>> /\ s1.hoveredStroke[1].id = payload.id
        THEN [s1 EXCEPT !.hoveredStroke = <<>>] ELSE s1

handleRemoteConnectorAdd(s, payload) ==
    IF FindConn(s, payload.id) # NoRef THEN s ELSE PushConnectorCopy(s, payload)

handleRemoteConnectorDelete(s, payload) ==
    LET s1 == [s EXCEPT !.connectors = ConnectorsWithout(s, payload.id)]
    IN  IF s1.selectedConnector # NoRef /\ CId(s1, s1.selectedConnector) = payload.id
        THEN [s1 EXCEPT !.selectedConnector = NoRef] ELSE s1

(* this.connectors[index] = {...this.connectors[index], ...payload}: a new *)
(* object takes the place of the old one in the array                      *)
handleRemoteConnectorUpdate(s, payload) ==
    LET hits == {i \in 1..Len(s.connectors) : s.cheap[s.connectors[i]].id = payload.id}
    IN  IF hits = {} THEN s
        ELSE LET index == MinOf(hits)
                 wasSelected == s.selectedConnector # NoRef
                                  /\ CId(s, s.selectedConnector) = payload.id
                 merged == Merge(s.cheap[s.connectors[index]], payload)
                 (* the old cell stays reachable while the array holds it *)
                 a  == NewConn(s, merged)
                 s1 == [a[1] EXCEPT !.connectors = [@ EXCEPT ![index] = a[2]]]
             IN  IF wasSelected THEN [s1 EXCEPT !.selectedConnector = a[2]] ELSE s1

(* Layer management.  allElements is [...objects, ...connectors]; an       *)
(* element is <<kind, reference>>.                                         *)
AllElements(s) ==
    [i \in 1..Len(s.objects) |-> <<"object", s.objects[i]>>]
        \o [i \in 1..Len(s.connectors) |-> <<"connector", s.connectors[i]>>]

ElementZ(s, e) ==
    IF e[1] = "object" THEN s.oheap[e[2]].zIndex ELSE s.cheap[e[2]].zIndex

(* const selected = this.selectedObject || this.selectedConnector *)
SelectedElement(s) ==
    IF s.selectedObject # NoRef THEN <<"object", s.selectedObject>>
    ELSE <<"connector", s.selectedConnector>>

SetElementZ(s, e, z) ==
    IF e[1] = "object"
    THEN [s EXCEPT !.oheap = [@ EXCEPT ![e[2]] = [@ EXCEPT !.zIndex = z]]]
    ELSE [s EXCEPT !.cheap = [@ EXCEPT ![e[2]] = [@ EXCEPT !.zIndex = z]]]

publishLayerChange(s, r) ==
    Publish(s, "object_layer", [id |-> s.oheap[r].id, zIndex |-> s.oheap[r].zIndex])

publishConnectorLayerChange(s, r) ==
    Publish(s, "connector_layer",
            [id |-> s.cheap[r].id, zIndex |-> s.cheap[r].zIndex])

PublishElementLayer(s, e) ==
    IF e[1] = "connector" THEN publishConnectorLayerChange(s, e[2])
    ELSE publishLayerChange(s, e[2])

(* the closing publish of the layer handlers tests this.selectedConnector *)
PublishSelectedLayer(s) ==
    IF s.selectedConnector # NoRef
    THEN publishConnectorLayerChange(s, s.selectedConnector)
    ELSE publishLayerChange(s, s.selectedObject)

isAtFront(s) ==
    LET all == AllElements(s)
    IN  \/ s.selectedObject = NoRef /\ s.selectedConnector = NoRef
        \/ Len(all) <= 1
        \/ \A i \in 1..Len(all) : ElementZ(s, SelectedElement(s)) >= ElementZ(s, all[i])

isAtBack(s) ==
    LET all == AllElements(s)
    IN  \/ s.selectedObject = NoRef /\ s.selectedConnector = NoRef
        \/ Len(all) <= 1
        \/ \A i \in 1..Len(all) : ElementZ(s, SelectedElement(s)) <= ElementZ(s, all[i])

(* the shared body of handleBringForward (step 1) and handleSendBackward   *)
(* (step -1): swap with the first element at the neighbouring zIndex, or   *)
(* just step when there is none                                            *)
StepLayer(s, step) ==
    LET selected == SelectedElement(s)
        currentZ == ElementZ(s, selected)
        all == AllElements(s)
        hits == {i \in 1..Len(all) : ElementZ(s, all[i]) = currentZ + step}
    IN  IF hits # {}
        THEN LET other == all[MinOf(hits)]
                 s1 == SetElementZ(s, other, currentZ)
                 s2 == SetElementZ(s1, selected, currentZ + step)
             IN  PublishSelectedLayer(PublishElementLayer(s2, other))
        ELSE PublishSelectedLayer(SetElementZ(s, selected, currentZ + step))

(* Mutant: the selected element steps over its neighbour without a swap *)
handleBringForward_noSwap(s) ==
    IF (s.selectedObject = NoRef /\ s.selectedConnector = NoRef) \/ isAtFront(s)
    THEN s
    ELSE LET selected == SelectedElement(s)
         IN  PublishSelectedLayer(
                 SetElementZ(s, selected, ElementZ(s, selected) + 1))

handleBringForward(s) ==
    IF (s.selectedObject = NoRef /\ s.selectedConnector = NoRef) \/ isAtFront(s)
    THEN s
    ELSE StepLayer(s, 1)

handleSendBackward(s) ==
    IF (s.selectedObject = NoRef /\ s.selectedConnector = NoRef) \/ isAtBack(s)
    THEN s
    ELSE IF ElementZ(s, SelectedElement(s)) <= 1 THEN s
    ELSE StepLayer(s, -1)

handleRemoteLayerChange(s, payload) ==
    LET r == FindObj(s, payload.id)
    IN  IF r = NoRef THEN s
        ELSE [s EXCEPT !.oheap = [@ EXCEPT ![r] = [@ EXCEPT !.zIndex = payload.zIndex]]]

handleRemoteConnectorLayerChange(s, payload) ==
    LET r == FindConn(s, payload.id)
    IN  IF r = NoRef THEN s
        ELSE [s EXCEPT !.cheap = [@ EXCEPT ![r] = [@ EXCEPT !.zIndex = payload.zIndex]]]

handleRemoteGroupCreate(s, payload) ==
    LET hits == {i \in 1..Len(s.objects) : s.oheap[s.objects[i]].id = payload.id}
    IN  IF hits # {}
        THEN LET a == NewObj(s, payload)
             IN  [a[1] EXCEPT !.objects = [@ EXCEPT ![MinOf(hits)] = a[2]]]
        ELSE PushObjectCopy(s, payload)

handleRemoteGroupUngroup(s, payload) ==
    LET s1 == [s EXCEPT !.objects = ObjectsWithout(s, payload.groupId)]
    IN  IF s1.selectedObject # NoRef /\ OId(s1, s1.selectedObject) = payload.groupId
        THEN [s1 EXCEPT !.selectedObject = NoRef] ELSE s1

showToast(s, title, variant) ==
    [s EXCEPT !.toasts = Append(@, [title |-> title, variant |-> variant])]

(* The blob handed to saveCanvasState: the three collections by value *)
SceneOf(s) ==
    [objects |-> [i \in 1..Len(s.objects) |-> s.oheap[s.objects[i]]],
     strokes |-> s.strokes,
     connectors |-> [i \in 1..Len(s.connectors) |-> s.cheap[s.connectors[i]]]]

(* Mutant: the blob holds the objects only *)
saveStateForNewUser_objectsOnly(s) ==
    [s EXCEPT !.saves = Append(@, [SceneOf(s) EXCEPT !.strokes = <<>>,
                                                     !.connectors = <<>>])]

saveStateForNewUser(s) == [s EXCEPT !.saves = Append(@, SceneOf(s))]

DispatchEvent(s, data) ==
    CASE data.eventType = "object_add" -> handleRemoteObjectAdd(s, data.payload)
      [] data.eventType = "object_move" -> handleRemoteObjectMove(s, data.payload)
      [] data.eventType = "object_resize" -> handleRemoteObjectResize(s, data.payload)
      [] data.eventType = "object_style" -> handleRemoteObjectStyle(s, data.payload)
      [] data.eventType = "object_delete" -> handleRemoteObjectDelete(s, data.payload)
      [] data.eventType = "draw_stroke" -> handleRemoteStroke(s, data.payload)
      [] data.eventType = "stroke_delete" -> handleRemoteStrokeDelete(s, data.payload)
      [] data.eventType = "connector_add" -> handleRemoteConnectorAdd(s, data.payload)
      [] data.eventType = "connector_update" ->
            handleRemoteConnectorUpdate(s, data.payload)
      [] data.eventType = "connector_delete" ->
            handleRemoteConnectorDelete(s, data.payload)
      [] data.eventType = "object_layer" -> handleRemoteLayerChange(s, data.payload)
      [] data.eventType = "connector_layer" ->
            handleRemoteConnectorLayerChange(s, data.payload)
      [] data.eventType = "group_create" -> handleRemoteGroupCreate(s, data.payload)
      [] data.eventType = "group_ungroup" -> handleRemoteGroupUngroup(s, data.payload)
      [] data.eventType = "user_join" ->
            saveStateForNewUser(showToast(s, "User Joined", "info"))
      [] data.eventType = "user_leave" -> showToast(s, "User Left", "info")
      [] OTHER -> s

(* Mutant: the own-echo filter is missing *)
handlePlatformEvent_noEchoFilter(s, data) ==
    IF data.canvasId # ThisCanvas THEN s ELSE DispatchEvent(s, data)

handlePlatformEvent(s, data) ==
    IF data.userId = Me THEN s
    ELSE IF data.canvasId # ThisCanvas THEN s
    ELSE DispatchEvent(s, data)

----------------------------------------------------------------------------
(* Local creation and deletion *)

StickySize == 150

DefaultText == "Double-click to edit"

(* Mutant: the sticky is saved as soon as it is added *)
addSticky_autoSave(s, pos) ==
    LET g   == GenerateId(s, "object")
        obj == [id |-> g[2], type |-> "sticky", x |-> pos.x, y |-> pos.y,
                width |-> StickySize, height |-> StickySize, color |-> "yellow",
                text |-> DefaultText, zIndex |-> GetNextZIndex(s),
                children |-> <<>>, connectorIds |-> <<>>]
        s1  == PushObjectCopy(g[1], obj)
        s2  == publishObjectAdd(s1, obj)
        s3  == recordAction(s2, "object_add", [objectId |-> obj.id])
    IN  [s3 EXCEPT !.saves = Append(@, SceneOf(s3))]

(* addSticky (handleAddRectangle, handleAddCircle, ... follow the same     *)
(* lines); pos stands for the random position                              *)
addSticky(s, pos) ==
    LET g   == GenerateId(s, "object")
        obj == [id |-> g[2], type |-> "sticky", x |-> pos.x, y |-> pos.y,
                width |-> StickySize, height |-> StickySize, color |-> "yellow",
                text |-> DefaultText, zIndex |-> GetNextZIndex(s),
                children |-> <<>>, connectorIds |-> <<>>]
        s1  == PushObjectCopy(g[1], obj)
        s2  == publishObjectAdd(s1, obj)
    IN  recordAction(s2, "object_add", [objectId |-> obj.id])

(* for each id: filter it out of this.connectors and publish the delete *)
RECURSIVE DeleteConnectorIds(_, _)
DeleteConnectorIds(s, ids) ==
    IF ids = <<>> THEN s
    ELSE DeleteConnectorIds(
            publishConnectorDelete(
                [s EXCEPT !.connectors = ConnectorsWithout(s, Head(ids))], Head(ids)),
            Tail(ids))

(* ids of the connectors with an anchor on objectId, in array order *)
AttachedConnectorIds(s, objectId) ==
    LET Attached(r) == \/ s.cheap[r].startAnchor.objectId = objectId
                       \/ s.cheap[r].endAnchor.objectId = objectId
    IN  SeqMapIds(SelectSeq(s.connectors, Attached), s.cheap)

deleteSelectedConnector(s) ==
    IF s.selectedConnector = NoRef THEN s
    ELSE LET conn == s.cheap[s.selectedConnector]
             s1 == recordAction(s, "connector_delete", [connector |-> conn])
             s2 == [s1 EXCEPT !.connectors = ConnectorsWithout(s1, conn.id)]
             s3 == publishConnectorDelete(s2, conn.id)
         IN  [s3 EXCEPT !.selectedConnector = NoRef]

RECURSIVE DeleteChildren(_, _)
DeleteChildren(s, childIds) ==
    IF childIds = <<>> THEN s
    ELSE LET childId == Head(childIds)
             s1 == DeleteConnectorIds(s, AttachedConnectorIds(s, childId))
             s2 == [s1 EXCEPT !.objects = ObjectsWithout(s1, childId)]
         IN  DeleteChildren(publishObjectDelete(s2, childId), Tail(childIds))

deleteGroup(s, group) ==
    LET s1 == DeleteConnectorIds(s, group.connectorIds)
        s2 == DeleteChildren(s1, group.children)
        s3 == [s2 EXCEPT !.objects = ObjectsWithout(s2, group.id)]
    IN  publishObjectDelete(s3, group.id)

deleteSelectedObject(s) ==
    IF s.selectedObject = NoRef THEN s
    ELSE LET obj == s.oheap[s.selectedObject]
         IN  IF obj.type = "group"
             THEN [deleteGroup(s, obj) EXCEPT !.selectedObject = NoRef]
             ELSE LET s1 == recordAction(s, "object_delete", [object |-> obj])
                      s2 == DeleteConnectorIds(s1, AttachedConnectorIds(s1, obj.id))
                      s3 == [s2 EXCEPT !.objects = ObjectsWithout(s2, obj.id)]
                      s4 == publishObjectDelete(s3, obj.id)
                  IN  [s4 EXCEPT !.selectedObject = NoRef]

deleteSelectedObjects(s) ==
    IF Len(s.selectedObjects) = 0 /\ Len(s.selectedConnectors) = 0 THEN s
    ELSE LET objectIds == SeqMapIds(s.selectedObjects, s.oheap)
             s1 == DeleteConnectorIds(s, SeqMapIds(s.selectedConnectors, s.cheap))
             s2 == DeleteChildren(s1, objectIds)
         IN  [s2 EXCEPT !.selectedObjects = <<>>, !.selectedConnectors = <<>>]

deleteStroke(s, stroke) ==
    LET s1 == recordAction(s, "stroke_delete", [stroke |-> stroke])
        s2 == [s1 EXCEPT !.strokes = StrokesWithout(s1, stroke.id),
                         !.hoveredStroke = <<>>]
    IN  publishStrokeDelete(s2, stroke.id)

(* the eraser looks each connector up again before it removes it *)
RECURSIVE DeleteConnectorIdsFound(_, _)
DeleteConnectorIdsFound(s, ids) ==
    IF ids = <<>> THEN s
    ELSE IF FindConn(s, Head(ids)) = NoRef THEN DeleteConnectorIdsFound(s, Tail(ids))
    ELSE DeleteConnectorIdsFound(
            publishConnectorDelete(
                [s EXCEPT !.connectors = ConnectorsWithout(s, Head(ids))], Head(ids)),
            Tail(ids))

deleteObjectWithEraser(s, ref) ==
    LET obj == s.oheap[ref]
        s1 == DeleteConnectorIdsFound(s, AttachedConnectorIds(s, obj.id))
        s2 == [s1 EXCEPT !.objects = ObjectsWithout(s1, obj.id)]
        s3 == publishObjectDelete(s2, obj.id)
    IN  [s3 EXCEPT !.hoveredObject = NoRef]

deleteConnectorWithEraser(s, ref) ==
    LET id == s.cheap[ref].id
        s1 == [s EXCEPT !.connectors = ConnectorsWithout(s, id)]
        s2 == publishConnectorDelete(s1, id)
    IN  [s2 EXCEPT !.hoveredConnector = NoRef]

----------------------------------------------------------------------------
(* Clipboard *)

RECURSIVE SeqOfHeap(_, _)
SeqOfHeap(refs, heap) ==
    IF refs = <<>> THEN <<>> ELSE <<heap[Head(refs)]>> \o SeqOfHeap(Tail(refs), heap)

handleCopy(s) ==
    LET objectsToCopy ==
            IF Len(s.selectedObjects) > 0 THEN s.selectedObjects
            ELSE IF s.selectedObject # NoRef THEN <<s.selectedObject>> ELSE <<>>
        connectorsToCopy ==
            IF Len(s.selectedConnectors) > 0 THEN s.selectedConnectors
            ELSE IF s.selectedConnector # NoRef THEN <<s.selectedConnector>> ELSE <<>>
    IN  IF Len(objectsToCopy) = 0 /\ Len(connectorsToCopy) = 0 THEN s
        ELSE [s EXCEPT !.clipboard =
                 [objects |-> SeqOfHeap(objectsToCopy, s.oheap),
                  connectors |-> SeqOfHeap(connectorsToCopy, s.cheap),
                  pasteCount |-> 0]]

(* idMap[id] || id *)
Mapped(idMap, id) == IF id \in DOMAIN idMap THEN idMap[id] ELSE id

RECURSIVE MapChildren(_, _)
MapChildren(children, idMap) ==
    IF children = <<>> THEN <<>>
    ELSE <<Mapped(idMap, Head(children))>> \o MapChildren(Tail(children), idMap)

(* The object loop of handlePaste.  st is [s, idMap, pasted]. *)
RECURSIVE PasteObjects(_, _, _)
PasteObjects(st, objs, offset) ==
    IF objs = <<>> THEN st
    ELSE LET obj == Head(objs)
             g   == GenerateId(st.s, "object")
             moved == [obj EXCEPT !.id = g[2], !.x = @ + offset, !.y = @ + offset,
                                  !.zIndex = GetNextZIndex(g[1])]
             idMap == [k \in DOMAIN st.idMap \cup {obj.id} |->
                          IF k = obj.id THEN g[2] ELSE st.idMap[k]]
             newObj == IF moved.type = "group"
                       THEN [moved EXCEPT !.children = MapChildren(@, idMap)]
                       ELSE moved
             a   == NewObj(g[1], newObj)
             s1  == [a[1] EXCEPT !.objects = Append(@, a[2])]
             s2  == publishObjectAdd(s1, newObj)
         IN  PasteObjects([s |-> s2, idMap |-> idMap,
                           pasted |-> Append(st.pasted, a[2])],
                          Tail(objs), offset)

(* One end of a pasted connector: the anchor is remapped when its object   *)
(* was pasted too.  Otherwise the code resolves the point from the         *)
(* clipboard data: the model's connectors carry no startPoint / endPoint,  *)
(* so the anchored object is looked up, and when it exists the code calls  *)
(* this.getAnchorPosition, which the class does not define: "throws".      *)
PasteAnchor(s, anchor, idMap) ==
    IF anchor.objectId # 0 /\ anchor.objectId \in DOMAIN idMap
    THEN [anchor |-> [anchor EXCEPT !.objectId = idMap[anchor.objectId]],
          throws |-> FALSE]
    ELSE IF anchor # NoAnchor /\ FindObj(s, anchor.objectId) # NoRef
    THEN [anchor |-> anchor, throws |-> TRUE]
    ELSE [anchor |-> anchor, throws |-> FALSE]

(* The connector loop of handlePaste.  st is [s, pasted, thrown]. *)
RECURSIVE PasteConnectors(_, _, _)
PasteConnectors(st, conns, idMap) ==
    IF conns = <<>> \/ st.thrown THEN st
    ELSE LET conn == Head(conns)
             g    == GenerateId(st.s, "connector")
             z    == GetNextZIndex(g[1])
             sa   == PasteAnchor(g[1], conn.startAnchor, idMap)
             ea   == PasteAnchor(g[1], conn.endAnchor, idMap)
             newConn == [conn EXCEPT !.id = g[2], !.zIndex = z,
                                     !.startAnchor = sa.anchor,
                                     !.endAnchor = ea.anchor]
             a    == NewConn(g[1], newConn)
             s1   == [a[1] EXCEPT !.connectors = Append(@, a[2])]
             s2   == publishConnectorAdd(s1, newConn)
         IN  IF sa.throws \/ ea.throws
             THEN [s |-> g[1], pasted |-> st.pasted, thrown |-> TRUE]
             ELSE PasteConnectors([s |-> s2, pasted |-> Append(st.pasted, a[2]),
                                   thrown |-> FALSE],
                                  Tail(conns), idMap)

(* Mutant: every paste is offset by 20, whatever the paste count *)
handlePaste_fixedOffset(s) ==
    IF Len(s.clipboard.objects) = 0 /\ Len(s.clipboard.connectors) = 0 THEN s
    ELSE LET s1 == [s EXCEPT !.clipboard.pasteCount = @ + 1,
                             !.selectedObject = NoRef,
                             !.selectedConnector = NoRef,
                             !.selectedObjects = <<>>,
                             !.selectedConnectors = <<>>]
             po == PasteObjects([s |-> s1, idMap |-> <<>>, pasted |-> <<>>],
                                s1.clipboard.objects, 20)
             pc == PasteConnectors([s |-> po.s, pasted |-> <<>>, thrown |-> FALSE],
                                   s1.clipboard.connectors, po.idMap)
         IN  IF pc.thrown THEN pc.s
             ELSE [pc.s EXCEPT !.selectedObjects = po.pasted,
                               !.selectedConnectors = pc.pasted]

handlePaste(s) ==
    IF Len(s.clipboard.objects) = 0 /\ Len(s.clipboard.connectors) = 0 THEN s
    ELSE LET s1 == [s EXCEPT !.clipboard.pasteCount = @ + 1,
                             !.selectedObject = NoRef,
                             !.selectedConnector = NoRef,
                             !.selectedObjects = <<>>,
                             !.selectedConnectors = <<>>]
             offset == s1.clipboard.pasteCount * 20
             po == PasteObjects([s |-> s1, idMap |-> <<>>, pasted |-> <<>>],
                                s1.clipboard.objects, offset)
             pc == PasteConnectors([s |-> po.s, pasted |-> <<>>, thrown |-> FALSE],
                                   s1.clipboard.connectors, po.idMap)
         IN  IF pc.thrown THEN pc.s
             ELSE [pc.s EXCEPT !.selectedObjects = po.pasted,
                               !.selectedConnectors = pc.pasted]

handleCut(s) ==
    LET s1 == handleCopy(s)
    IN  IF Len(s1.selectedObjects) > 0 \/ Len(s1.selectedConnectors) > 0
        THEN deleteSelectedObjects(s1)
        ELSE IF s1.selectedConnector # NoRef THEN deleteSelectedConnector(s1)
        ELSE IF s1.selectedObject # NoRef THEN deleteSelectedObject(s1)
        ELSE s1

----------------------------------------------------------------------------
(* Groups *)

MinInt(S) == CHOOSE m \in S : \A n \in S : m <= n

MaxInt(S) == CHOOSE m \in S : \A n \in S : n <= m

(* getAnchorPoint of the drawing utilities, for the shapes of the model    *)
(* (neither diamond nor triangle); sizes are even, so / 2 is exact         *)
getAnchorPoint(obj, position) ==
    CASE position = "top" -> [x |-> obj.x + obj.width \div 2, y |-> obj.y]
      [] position = "bottom" ->
            [x |-> obj.x + obj.width \div 2, y |-> obj.y + obj.height]
      [] position = "left" -> [x |-> obj.x, y |-> obj.y + obj.height \div 2]
      [] position = "right" ->
            [x |-> obj.x + obj.width, y |-> obj.y + obj.height \div 2]
      [] OTHER -> [x |-> obj.x + obj.width \div 2, y |-> obj.y + obj.height \div 2]

(* Mutant: the stored coordinates are returned, anchored or not *)
resolveConnectorPoint_stored(s, conn, pointType) ==
    IF pointType = "start" THEN [x |-> conn.startX, y |-> conn.startY]
    ELSE [x |-> conn.endX, y |-> conn.endY]

resolveConnectorPoint(s, conn, pointType) ==
    LET anchor == IF pointType = "start" THEN conn.startAnchor ELSE conn.endAnchor
        x == IF pointType = "start" THEN conn.startX ELSE conn.endX
        y == IF pointType = "start" THEN conn.startY ELSE conn.endY
        r == FindObj(s, anchor.objectId)
    IN  IF anchor.objectId # 0 /\ r # NoRef
        THEN getAnchorPoint(s.oheap[r], anchor.position)
        ELSE [x |-> x, y |-> y]

(* calculateBoundingBox: <<>> for null *)
calculateBoundingBox(s, objectIds) ==
    LET found == {FindObj(s, id) : id \in Range(objectIds)} \ {NoRef}
        minX == MinInt({s.oheap[r].x : r \in found})
        minY == MinInt({s.oheap[r].y : r \in found})
        maxX == MaxInt({s.oheap[r].x + s.oheap[r].width : r \in found})
        maxY == MaxInt({s.oheap[r].y + s.oheap[r].height : r \in found})
    IN  IF found = {} THEN <<>>
        ELSE <<[x |-> minX, y |-> minY, width |-> maxX - minX, height |-> maxY - minY]>>

BoundsPadding == 10

(* calculateConnectorBounds, over the resolved end points *)
calculateConnectorBounds(s, connectorIds) ==
    LET found == {FindConn(s, id) : id \in Range(connectorIds)} \ {NoRef}
        pts == {resolveConnectorPoint(s, s.cheap[r], "start") : r \in found}
                 \cup {resolveConnectorPoint(s, s.cheap[r], "end") : r \in found}
        minX == MinInt({p.x : p \in pts})
        minY == MinInt({p.y : p \in pts})
        maxX == MaxInt({p.x : p \in pts})
        maxY == MaxInt({p.y : p \in pts})
    IN  IF pts = {} THEN <<>>
        ELSE <<[x |-> minX - BoundsPadding, y |-> minY - BoundsPadding,
                width |-> (maxX - minX) + BoundsPadding * 2,
                height |-> (maxY - minY) + BoundsPadding * 2]>>

(* children of the selected groups are taken, other objects by their id *)
RECURSIVE FlattenChildIds(_, _)
FlattenChildIds(refs, heap) ==
    IF refs = <<>> THEN <<>>
    ELSE (IF heap[Head(refs)].type = "group" THEN heap[Head(refs)].children
          ELSE <<heap[Head(refs)].id>>) \o FlattenChildIds(Tail(refs), heap)

(* createGroupFromSelection; childOffsets (fractions used by no code path  *)
(* of the model) are left out of the group record                          *)
(* Mutant: the new group is selected on top of the multi-selection *)
createGroupFromSelection_keepsMulti(s) ==
    LET childIds == FlattenChildIds(s.selectedObjects, s.oheap)
        connectorIds == SeqMapIds(s.selectedConnectors, s.cheap)
        bounds == IF Len(childIds) > 0 THEN calculateBoundingBox(s, childIds)
                  ELSE calculateConnectorBounds(s, connectorIds)
        selectedIds == {s.oheap[r].id : r \in Range(s.selectedObjects)}
        NotSelectedGroup(r) == s.oheap[r].type # "group" \/ s.oheap[r].id \notin selectedIds
    IN  IF Len(s.selectedObjects) + Len(s.selectedConnectors) < 2 THEN s
        ELSE IF Len(childIds) < 1 /\ Len(connectorIds) < 2 THEN s
        ELSE IF bounds = <<>> THEN s
        ELSE LET g == GenerateId(s, "group")
                 group == [id |-> g[2], type |-> "group",
                           x |-> bounds[1].x, y |-> bounds[1].y,
                           width |-> bounds[1].width, height |-> bounds[1].height,
                           color |-> "", text |-> "",
                           zIndex |-> GetNextZIndex(g[1]),
                           children |-> childIds, connectorIds |-> connectorIds]
                 s1 == [g[1] EXCEPT !.objects = SelectSeq(@, NotSelectedGroup)]
                 a  == NewObj(s1, group)
                 s2 == [a[1] EXCEPT !.objects = Append(@, a[2]),
                                    !.selectedObject = a[2]]
                 s3 == publishGroupCreate(s2, group)
             IN  recordAction(s3, "group_create", [groupId |-> group.id])

createGroupFromSelection(s) ==
    LET childIds == FlattenChildIds(s.selectedObjects, s.oheap)
        connectorIds == SeqMapIds(s.selectedConnectors, s.cheap)
        bounds == IF Len(childIds) > 0 THEN calculateBoundingBox(s, childIds)
                  ELSE calculateConnectorBounds(s, connectorIds)
        selectedIds == {s.oheap[r].id : r \in Range(s.selectedObjects)}
        NotSelectedGroup(r) == s.oheap[r].type # "group" \/ s.oheap[r].id \notin selectedIds
    IN  IF Len(s.selectedObjects) + Len(s.selectedConnectors) < 2 THEN s
        ELSE IF Len(childIds) < 1 /\ Len(connectorIds) < 2 THEN s
        ELSE IF bounds = <<>> THEN s
        ELSE LET g == GenerateId(s, "group")
                 group == [id |-> g[2], type |-> "group",
                           x |-> bounds[1].x, y |-> bounds[1].y,
                           width |-> bounds[1].width, height |-> bounds[1].height,
                           color |-> "", text |-> "",
                           zIndex |-> GetNextZIndex(g[1]),
                           children |-> childIds, connectorIds |-> connectorIds]
                 s1 == [g[1] EXCEPT !.objects = SelectSeq(@, NotSelectedGroup)]
                 a  == NewObj(s1, group)
                 s2 == [a[1] EXCEPT !.objects = Append(@, a[2]),
                                    !.selectedObject = a[2],
                                    !.selectedObjects = <<>>,
                                    !.selectedConnectors = <<>>]
                 s3 == publishGroupCreate(s2, group)
             IN  recordAction(s3, "group_create", [groupId |-> group.id])

(* ids.map(id => this.objects.find(o => o.id === id)).filter(Boolean) *)
RECURSIVE FindAllObjs(_, _)
FindAllObjs(s, ids) ==
    IF ids = <<>> THEN <<>>
    ELSE (IF FindObj(s, Head(ids)) = NoRef THEN <<>> ELSE <<FindObj(s, Head(ids))>>)
            \o FindAllObjs(s, Tail(ids))

RECURSIVE FindAllConns(_, _)
FindAllConns(s, ids) ==
    IF ids = <<>> THEN <<>>
    ELSE (IF FindConn(s, Head(ids)) = NoRef THEN <<>> ELSE <<FindConn(s, Head(ids))>>)
            \o FindAllConns(s, Tail(ids))

ungroupSelection(s) ==
    IF s.selectedObject = NoRef \/ s.oheap[s.selectedObject].type # "group" THEN s
    ELSE LET group == s.oheap[s.selectedObject]
             s1 == recordAction(s, "group_ungroup", [group |-> group])
             s2 == publishGroupUngroup(s1, group.id, group.children)
             s3 == [s2 EXCEPT !.objects = ObjectsWithout(s2, group.id)]
         IN  [s3 EXCEPT !.selectedObject = NoRef,
                        !.selectedObjects = FindAllObjs(s3, group.children),
                        !.selectedConnectors = FindAllConns(s3, group.connectorIds)]

(* moveGroupChildren: the children move; the model's connectors carry no   *)
(* startPoint, endPoint, waypoints or control points, so the connector     *)
(* loop changes nothing                                                    *)
RECURSIVE moveGroupChildren(_, _, _, _)
moveGroupChildren(s, childIds, dx, dy) ==
    IF childIds = <<>> THEN s
    ELSE LET r == FindObj(s, Head(childIds))
             s1 == IF r = NoRef THEN s
                   ELSE [s EXCEPT !.oheap = [@ EXCEPT ![r] =
                            [@ EXCEPT !.x = @ + dx, !.y = @ + dy]]]
         IN  moveGroupChildren(s1, Tail(childIds), dx, dy)

----------------------------------------------------------------------------
(* Pointer handlers.  A pointer event ptr carries its canvas position      *)
(* (x, y), the ctrl key, and what the hit-tests on strokes and connectors  *)
(* find at that position (stroke, connector): those two depend on          *)
(* distances to line segments and are inputs of the event.  Objects are    *)
(* hit-tested on their bounding box as the code does for stickies and      *)
(* groups, anchors by their distance, resize handles on their squares.     *)
(* Connector end points, control points and labels are never under the     *)
(* pointer, and neither shift nor alt is held.                             *)

isPointInObject(x, y, obj) ==
    /\ x >= obj.x /\ x <= obj.x + obj.width
    /\ y >= obj.y /\ y <= obj.y + obj.height

(* first hit of [...this.objects].sort by zIndex, highest first (stable) *)
findObjectAt(s, x, y) ==
    LET hits == {i \in 1..Len(s.objects) : isPointInObject(x, y, s.oheap[s.objects[i]])}
        Above(i, j) == LET zi == s.oheap[s.objects[i]].zIndex
                           zj == s.oheap[s.objects[j]].zIndex
                       IN  zi > zj \/ (zi = zj /\ i <= j)
    IN  IF hits = {} THEN NoRef
        ELSE s.objects[CHOOSE i \in hits : \A j \in hits : Above(i, j)]

findConnectorAt(s, ptr) == ptr.connector

findStrokeAtPoint(s, ptr) == ptr.stroke

(* anchors are snapped to under this distance *)
SNAP_RADIUS == 15

AnchorPositions == <<"top", "bottom", "left", "right">>

(* findNearestAnchor: the first anchor at the least distance under         *)
(* SNAP_RADIUS, objects in array order and their anchors in the order of   *)
(* getAllAnchorPoints; distances are compared on their squares.  The       *)
(* result is <<>> for null or holds one record.                            *)
findNearestAnchor(s, ptr) ==
    LET cands == {<<i, j>> : i \in 1..Len(s.objects), j \in 1..4}
        Pt(c) == getAnchorPoint(s.oheap[s.objects[c[1]]], AnchorPositions[c[2]])
        D2(c) == (ptr.x - Pt(c).x) * (ptr.x - Pt(c).x)
                   + (ptr.y - Pt(c).y) * (ptr.y - Pt(c).y)
        near == {c \in cands : D2(c) < SNAP_RADIUS * SNAP_RADIUS}
        Before(c, d) == c[1] < d[1] \/ (c[1] = d[1] /\ c[2] <= d[2])
        best == CHOOSE c \in near :
                    \A d \in near : D2(c) < D2(d) \/ (D2(c) = D2(d) /\ Before(c, d))
    IN  IF near = {} THEN <<>>
        ELSE <<[objectId |-> s.oheap[s.objects[best[1]]].id,
                position |-> AnchorPositions[best[2]],
                x |-> Pt(best).x, y |-> Pt(best).y]>>

(* index of the first selected object with this id, 0 for -1 *)
FindIndexSelected(s, id) ==
    LET hits == {i \in 1..Len(s.selectedObjects) : s.oheap[s.selectedObjects[i]].id = id}
    IN  IF hits = {} THEN 0 ELSE MinOf(hits)

RemoveAt(seq, i) == SubSeq(seq, 1, i - 1) \o SubSeq(seq, i + 1, Len(seq))

handleSelection(s, ptr) ==
    LET foundObject == findObjectAt(s, ptr.x, ptr.y)
        foundConnector == IF foundObject = NoRef THEN findConnectorAt(s, ptr) ELSE NoRef
        index == FindIndexSelected(s, OId(s, foundObject))
    IN  IF foundObject # NoRef
        THEN IF ptr.ctrlKey
             THEN [s EXCEPT !.selectedObjects =
                                IF index > 0 THEN RemoveAt(@, index)
                                ELSE Append(@, foundObject),
                            !.selectedObject = NoRef,
                            !.selectedConnector = NoRef]
             ELSE IF index > 0 /\ Len(s.selectedObjects) > 1
             THEN [s EXCEPT !.gesture.isDraggingMultiple = TRUE,
                            !.gesture.lastDragPosition = [x |-> ptr.x, y |-> ptr.y],
                            !.selectedObject = NoRef,
                            !.selectedConnector = NoRef]
             ELSE [s EXCEPT !.selectedObject = foundObject,
                            !.selectedConnector = NoRef,
                            !.selectedObjects = <<>>,
                            !.selectedConnectors = <<>>,
                            !.gesture.isDragging = TRUE,
                            !.gesture.dragOffset =
                                [x |-> ptr.x - s.oheap[foundObject].x,
                                 y |-> ptr.y - s.oheap[foundObject].y],
                            !.gesture.dragStartState =
                                <<[x |-> s.oheap[foundObject].x,
                                   y |-> s.oheap[foundObject].y]>>]
        ELSE IF foundConnector # NoRef
        THEN [s EXCEPT !.selectedConnector = foundConnector,
                       !.selectedObject = NoRef,
                       !.selectedObjects = <<>>,
                       !.selectedConnectors = <<>>,
                       !.gesture.isDragging = FALSE]
        ELSE LET s1 == [s EXCEPT !.selectedObject = NoRef,
                                 !.selectedConnector = NoRef,
                                 !.selectedObjects = <<>>,
                                 !.selectedConnectors = <<>>]
             IN  IF s.currentTool = "select"
                 THEN [s1 EXCEPT !.gesture.isMarqueeSelecting = TRUE,
                                 !.gesture.marqueeStart = [x |-> ptr.x, y |-> ptr.y],
                                 !.gesture.marqueeEnd = [x |-> ptr.x, y |-> ptr.y]]
                 ELSE s1

startDrawing(s, x, y) ==
    LET g == GenerateId(s, "stroke")
    IN  [g[1] EXCEPT !.gesture.isDrawing = TRUE,
                     !.gesture.currentStroke =
                         <<[id |-> g[2], points |-> <<[x |-> x, y |-> y]>>]>>]

finishDrawing(s) ==
    LET stroke == s.gesture.currentStroke[1]
        s1 == IF s.gesture.currentStroke # <<>> /\ Len(stroke.points) > 1
              THEN recordAction(
                       publishStroke([s EXCEPT !.strokes = Append(@, stroke)], stroke),
                       "stroke_add", [strokeId |-> stroke.id])
              ELSE s
    IN  [s1 EXCEPT !.gesture.currentStroke = <<>>, !.gesture.isDrawing = FALSE]

startConnector(s, ptr) ==
    LET nearestAnchor == findNearestAnchor(s, ptr)
        g == GenerateId(s, "connector")
        conn == [id |-> g[2],
                 startX |-> IF nearestAnchor # <<>> THEN nearestAnchor[1].x ELSE ptr.x,
                 startY |-> IF nearestAnchor # <<>> THEN nearestAnchor[1].y ELSE ptr.y,
                 startAnchor |-> IF nearestAnchor # <<>>
                                 THEN [objectId |-> nearestAnchor[1].objectId,
                                       position |-> nearestAnchor[1].position]
                                 ELSE NoAnchor,
                 endX |-> ptr.x, endY |-> ptr.y, endAnchor |-> NoAnchor,
                 label |-> "", zIndex |-> GetNextZIndex(g[1])]
    IN  [g[1] EXCEPT !.gesture.isConnecting = TRUE,
                     !.gesture.currentConnector = <<conn>>]

(* length > 20, compared on the squares *)
MinConnectorLength == 20

finishConnector(s) ==
    IF s.gesture.currentConnector = <<>> THEN s
    ELSE LET conn == s.gesture.currentConnector[1]
             start == resolveConnectorPoint(s, conn, "start")
             end == resolveConnectorPoint(s, conn, "end")
             sq == (end.x - start.x) * (end.x - start.x)
                     + (end.y - start.y) * (end.y - start.y)
             s1 == IF sq > MinConnectorLength * MinConnectorLength
                   THEN recordAction(
                            publishConnectorAdd(PushConnectorCopy(s, conn), conn),
                            "connector_add", [connectorId |-> conn.id])
                   ELSE s
         IN  [s1 EXCEPT !.gesture.currentConnector = <<>>,
                        !.gesture.isConnecting = FALSE]

(* Marquee selection *)
getMarqueeRect(s) ==
    LET a == s.gesture.marqueeStart
        b == s.gesture.marqueeEnd
        Abs(n) == IF n < 0 THEN -n ELSE n
    IN  [x |-> IF a.x < b.x THEN a.x ELSE b.x,
         y |-> IF a.y < b.y THEN a.y ELSE b.y,
         width |-> Abs(b.x - a.x), height |-> Abs(b.y - a.y)]

(* Mutant: only objects lying wholly inside the rectangle are selected *)
objectIntersectsRect_contained(obj, rect) ==
    /\ obj.x >= rect.x /\ obj.x + obj.width <= rect.x + rect.width
    /\ obj.y >= rect.y /\ obj.y + obj.height <= rect.y + rect.height

objectIntersectsRect(obj, rect) ==
    ~ \/ obj.x + obj.width < rect.x
      \/ obj.x > rect.x + rect.width
      \/ obj.y + obj.height < rect.y
      \/ obj.y > rect.y + rect.height

isPointInRect(px, py, rect) ==
    /\ px >= rect.x /\ px <= rect.x + rect.width
    /\ py >= rect.y /\ py <= rect.y + rect.height

(* ua = na / denom and ub = nb / denom lie in [0, 1]; on integers the      *)
(* quotients are compared through their numerators                         *)
lineSegmentsIntersect(x1, y1, x2, y2, x3, y3, x4, y4) ==
    LET denom == (y4 - y3) * (x2 - x1) - (x4 - x3) * (y2 - y1)
        na == (x4 - x3) * (y1 - y3) - (y4 - y3) * (x1 - x3)
        nb == (x2 - x1) * (y1 - y3) - (y2 - y1) * (x1 - x3)
        InUnit(n) == IF denom > 0 THEN n >= 0 /\ n <= denom
                     ELSE n <= 0 /\ n >= denom
    IN  denom # 0 /\ InUnit(na) /\ InUnit(nb)

lineIntersectsRect(x1, y1, x2, y2, rect) ==
    LET left == rect.x
        right == rect.x + rect.width
        top == rect.y
        bottom == rect.y + rect.height
    IN  \/ isPointInRect(x1, y1, rect)
        \/ isPointInRect(x2, y2, rect)
        \/ lineSegmentsIntersect(x1, y1, x2, y2, left, top, right, top)
        \/ lineSegmentsIntersect(x1, y1, x2, y2, left, bottom, right, bottom)
        \/ lineSegmentsIntersect(x1, y1, x2, y2, left, top, left, bottom)
        \/ lineSegmentsIntersect(x1, y1, x2, y2, right, top, right, bottom)

connectorIntersectsRect(s, conn, rect) ==
    LET start == resolveConnectorPoint(s, conn, "start")
        end == resolveConnectorPoint(s, conn, "end")
    IN  \/ isPointInRect(start.x, start.y, rect)
        \/ isPointInRect(end.x, end.y, rect)
        \/ lineIntersectsRect(start.x, start.y, end.x, end.y, rect)

(* a marquee under this size in both dimensions is a click *)
MarqueeMinSize == 5

finishMarqueeSelection(s) ==
    LET rect == getMarqueeRect(s)
        s1 == [s EXCEPT !.gesture.isMarqueeSelecting = FALSE]
        InRectO(r) == objectIntersectsRect(s.oheap[r], rect)
        InRectC(r) == connectorIntersectsRect(s, s.cheap[r], rect)
    IN  IF rect.width < MarqueeMinSize /\ rect.height < MarqueeMinSize
        THEN [s1 EXCEPT !.selectedObjects = <<>>, !.selectedConnectors = <<>>]
        ELSE [s1 EXCEPT !.selectedObjects = SelectSeq(s.objects, InRectO),
                        !.selectedConnectors = SelectSeq(s.connectors, InRectC)]

(* the grid that resize deltas snap to *)
GRID_SIZE == 20

(* side of a resize handle, and the slack around it that still hits it *)
HANDLE_SIZE == 8

HANDLE_TOLERANCE == 4

(* no element is resized beyond this width or height *)
MAX_ELEMENT_SIZE == 800

(* the smallest size of a type: stickies have their own entry, groups and  *)
(* every type without an entry fall back to the default                    *)
getMinSize(type) ==
    IF type = "sticky" THEN [width |-> 60, height |-> 60]
    ELSE [width |-> 40, height |-> 40]

(* Math.round(value / GRID_SIZE) * GRID_SIZE, halves rounded upwards *)
snapToGrid(value) == ((2 * value + GRID_SIZE) \div (2 * GRID_SIZE)) * GRID_SIZE

(* The eight handles in the order the code enumerates them.  x2 and y2 are *)
(* twice the handle's top left corner, which keeps width / 2 exact.        *)
getResizeHandles(obj) ==
    LET half  == HANDLE_SIZE \div 2
        left  == 2 * (obj.x - half)
        mid   == 2 * obj.x + obj.width - 2 * half
        right == 2 * (obj.x + obj.width - half)
        top   == 2 * (obj.y - half)
        centre == 2 * obj.y + obj.height - 2 * half
        bottom == 2 * (obj.y + obj.height - half)
    IN  << [position |-> "nw", x2 |-> left,  y2 |-> top],
           [position |-> "n",  x2 |-> mid,   y2 |-> top],
           [position |-> "ne", x2 |-> right, y2 |-> top],
           [position |-> "e",  x2 |-> right, y2 |-> centre],
           [position |-> "se", x2 |-> right, y2 |-> bottom],
           [position |-> "s",  x2 |-> mid,   y2 |-> bottom],
           [position |-> "sw", x2 |-> left,  y2 |-> bottom],
           [position |-> "w",  x2 |-> left,  y2 |-> centre] >>

(* the first handle whose square, widened by the tolerance, holds (x, y);  *)
(* "none" is the code's null                                               *)
getHandleAtPoint(x, y, obj) ==
    LET handles == getResizeHandles(obj)
        Hit(h) == /\ 2 * x >= h.x2 - 2 * HANDLE_TOLERANCE
                  /\ 2 * x <= h.x2 + 2 * (HANDLE_SIZE + HANDLE_TOLERANCE)
                  /\ 2 * y >= h.y2 - 2 * HANDLE_TOLERANCE
                  /\ 2 * y <= h.y2 + 2 * (HANDLE_SIZE + HANDLE_TOLERANCE)
        hits == SelectSeq(handles, Hit)
    IN  IF obj.type = "connector" \/ hits = <<>> THEN "none"
        ELSE hits[1].position

startResize(s, handle, x, y) ==
    LET obj == s.oheap[s.selectedObject]
    IN  [s EXCEPT !.gesture.isResizing = TRUE,
                  !.gesture.activeResizeHandle = handle,
                  !.gesture.resizeStartState =
                      <<[x |-> obj.x, y |-> obj.y, width |-> obj.width,
                         height |-> obj.height, mouseX |-> x, mouseY |-> y]>>]

(* the selected object takes the size the pointer asks of the active       *)
(* handle, measured from the size and pointer position at the start        *)
performResize(s, mouseX, mouseY) ==
    IF s.selectedObject = NoRef \/ s.gesture.resizeStartState = <<>> THEN s
    ELSE LET obj     == s.oheap[s.selectedObject]
             start   == s.gesture.resizeStartState[1]
             minSize == getMinSize(obj.type)
             handle  == s.gesture.activeResizeHandle
             deltaX  == snapToGrid(mouseX - start.mouseX)
             deltaY  == snapToGrid(mouseY - start.mouseY)
             Clamp(lo, v) == IF v > MAX_ELEMENT_SIZE
                             THEN (IF MAX_ELEMENT_SIZE < lo THEN lo ELSE MAX_ELEMENT_SIZE)
                             ELSE IF v < lo THEN lo ELSE v
             newWidth ==
                 IF handle \in {"se", "ne", "e"}
                 THEN Clamp(minSize.width, start.width + deltaX)
                 ELSE IF handle \in {"sw", "nw", "w"}
                 THEN Clamp(minSize.width, start.width - deltaX)
                 ELSE start.width
             newHeight ==
                 IF handle \in {"se", "sw", "s"}
                 THEN Clamp(minSize.height, start.height + deltaY)
                 ELSE IF handle \in {"ne", "nw", "n"}
                 THEN Clamp(minSize.height, start.height - deltaY)
                 ELSE start.height
             newX == IF handle \in {"sw", "nw", "w"}
                     THEN start.x + start.width - newWidth ELSE start.x
             newY == IF handle \in {"ne", "nw", "n"}
                     THEN start.y + start.height - newHeight ELSE start.y
         IN  [s EXCEPT !.oheap = [@ EXCEPT ![s.selectedObject] =
                  [@ EXCEPT !.x = newX, !.y = newY,
                            !.width = newWidth, !.height = newHeight]]]

finishResize(s) ==
    LET s2 == IF s.selectedObject # NoRef
              THEN LET obj   == s.oheap[s.selectedObject]
                       start == s.gesture.resizeStartState
                       s1 == IF start # <<>>
                                /\ (\/ start[1].x # obj.x \/ start[1].y # obj.y
                                    \/ start[1].width # obj.width
                                    \/ start[1].height # obj.height)
                             THEN recordAction(s, "object_resize",
                                      [objectId |-> obj.id,
                                       previousX |-> start[1].x,
                                       previousY |-> start[1].y,
                                       previousWidth |-> start[1].width,
                                       previousHeight |-> start[1].height])
                             ELSE s
                   IN  publishObjectResize(s1, obj)
              ELSE s
    IN  [s2 EXCEPT !.gesture.isResizing = FALSE,
                   !.gesture.activeResizeHandle = "none",
                   !.gesture.resizeStartState = <<>>]

handleMouseDown(s, ptr) ==
    IF s.currentTool = "pan" THEN [s EXCEPT !.gesture.isPanning = TRUE]
    ELSE IF s.currentTool = "eraser"
    THEN IF s.hoveredStroke # <<>> THEN deleteStroke(s, s.hoveredStroke[1])
         ELSE IF s.hoveredObject # NoRef THEN deleteObjectWithEraser(s, s.hoveredObject)
         ELSE IF s.hoveredConnector # NoRef
         THEN deleteConnectorWithEraser(s, s.hoveredConnector)
         ELSE s
    ELSE IF s.currentTool = "draw" THEN startDrawing(s, ptr.x, ptr.y)
    ELSE IF s.currentTool = "connector" THEN startConnector(s, ptr)
    ELSE LET handle == IF s.selectedObject # NoRef /\ s.currentTool = "select"
                       THEN getHandleAtPoint(ptr.x, ptr.y, s.oheap[s.selectedObject])
                       ELSE "none"
         IN  IF handle # "none" THEN startResize(s, handle, ptr.x, ptr.y)
             ELSE handleSelection(s, ptr)

(* for (const obj of this.selectedObjects) { obj.x += dx; ... } *)
RECURSIVE MoveSelected(_, _, _, _)
MoveSelected(s, refs, dx, dy) ==
    IF refs = <<>> THEN s
    ELSE LET r == Head(refs)
             s1 == [s EXCEPT !.oheap = [@ EXCEPT ![r] =
                        [@ EXCEPT !.x = @ + dx, !.y = @ + dy]]]
             s2 == IF s1.oheap[r].type = "group"
                   THEN moveGroupChildren(s1, s1.oheap[r].children, dx, dy)
                   ELSE s1
         IN  MoveSelected(s2, Tail(refs), dx, dy)

(* the eraser's hover detection, or the clearing of the hover state *)
UpdateHover(s, ptr) ==
    IF s.currentTool = "eraser"
    THEN LET stroke == findStrokeAtPoint(s, ptr)
             obj == IF stroke = <<>> THEN findObjectAt(s, ptr.x, ptr.y) ELSE NoRef
             conn == IF stroke = <<>> /\ obj = NoRef
                     THEN findConnectorAt(s, ptr) ELSE NoRef
         IN  [s EXCEPT !.hoveredStroke = stroke, !.hoveredObject = obj,
                       !.hoveredConnector = conn]
    ELSE [s EXCEPT !.hoveredStroke = <<>>, !.hoveredObject = NoRef,
                   !.hoveredConnector = NoRef]

DragSelected(s, ptr) ==
    IF s.gesture.isDragging /\ s.selectedObject # NoRef
    THEN LET r == s.selectedObject
             newX == ptr.x - s.gesture.dragOffset.x
             newY == ptr.y - s.gesture.dragOffset.y
             dx == newX - s.oheap[r].x
             dy == newY - s.oheap[r].y
             s1 == [s EXCEPT !.oheap = [@ EXCEPT ![r] =
                        [@ EXCEPT !.x = newX, !.y = newY]]]
         IN  IF s1.oheap[r].type = "group"
             THEN moveGroupChildren(s1, s1.oheap[r].children, dx, dy)
             ELSE s1
    ELSE s

ExtendStroke(s, ptr) ==
    IF s.gesture.isDrawing /\ s.gesture.currentStroke # <<>>
    THEN [s EXCEPT !.gesture.currentStroke[1].points =
                       Append(@, [x |-> ptr.x, y |-> ptr.y])]
    ELSE s

ExtendConnector(s, ptr) ==
    IF s.gesture.isConnecting /\ s.gesture.currentConnector # <<>>
    THEN LET nearestAnchor == findNearestAnchor(s, ptr)
         IN  IF nearestAnchor # <<>>
             THEN [s EXCEPT !.gesture.currentConnector[1] =
                      [@ EXCEPT !.endX = nearestAnchor[1].x,
                                !.endY = nearestAnchor[1].y,
                                !.endAnchor = [objectId |-> nearestAnchor[1].objectId,
                                               position |-> nearestAnchor[1].position]]]
             ELSE [s EXCEPT !.gesture.currentConnector[1] =
                      [@ EXCEPT !.endX = ptr.x, !.endY = ptr.y,
                                !.endAnchor = NoAnchor]]
    ELSE s

handleMouseMove(s, ptr) ==
    IF s.gesture.isPanning THEN s
    ELSE IF /\ s.gesture.isResizing /\ s.selectedObject # NoRef
            /\ s.gesture.activeResizeHandle # "none"
    THEN performResize(s, ptr.x, ptr.y)
    ELSE IF s.gesture.isMarqueeSelecting
    THEN [s EXCEPT !.gesture.marqueeEnd = [x |-> ptr.x, y |-> ptr.y]]
    ELSE IF s.gesture.isDraggingMultiple /\ Len(s.selectedObjects) > 1
    THEN [MoveSelected(s, s.selectedObjects,
                       ptr.x - s.gesture.lastDragPosition.x,
                       ptr.y - s.gesture.lastDragPosition.y)
            EXCEPT !.gesture.lastDragPosition = [x |-> ptr.x, y |-> ptr.y]]
    ELSE UpdateHover(ExtendConnector(ExtendStroke(DragSelected(s, ptr), ptr), ptr), ptr)

(* publishObjectMove for each child of a group that is still found *)
RECURSIVE PublishChildMoves(_, _)
PublishChildMoves(s, childIds) ==
    IF childIds = <<>> THEN s
    ELSE LET r == FindObj(s, Head(childIds))
         IN  PublishChildMoves(
                 IF r = NoRef THEN s ELSE publishObjectMove(s, s.oheap[r]),
                 Tail(childIds))

PublishMoveWithChildren(s, r) ==
    LET s1 == publishObjectMove(s, s.oheap[r])
    IN  IF s.oheap[r].type = "group"
        THEN PublishChildMoves(s1, s.oheap[r].children) ELSE s1

RECURSIVE PublishSelectedMoves(_, _)
PublishSelectedMoves(s, refs) ==
    IF refs = <<>> THEN s
    ELSE PublishSelectedMoves(PublishMoveWithChildren(s, Head(refs)), Tail(refs))

FinishDrag(s) ==
    IF s.gesture.isDragging /\ s.selectedObject # NoRef
    THEN LET obj == s.oheap[s.selectedObject]
             start == s.gesture.dragStartState
             s1 == IF start # <<>> /\ (start[1].x # obj.x \/ start[1].y # obj.y)
                   THEN recordAction(s, "object_move",
                            [objectId |-> obj.id, previousX |-> start[1].x,
                             previousY |-> start[1].y])
                   ELSE s
             s2 == [s1 EXCEPT !.gesture.dragStartState = <<>>]
         IN  PublishMoveWithChildren(s2, s2.selectedObject)
    ELSE s

FinishMultiDrag(s) ==
    IF s.gesture.isDraggingMultiple /\ Len(s.selectedObjects) > 0
    THEN PublishSelectedMoves(s, s.selectedObjects)
    ELSE s

handleMouseUp(s) ==
    IF s.gesture.isPanning THEN [s EXCEPT !.gesture.isPanning = FALSE]
    ELSE LET s1 == [FinishDrag(s) EXCEPT !.gesture.isDragging = FALSE]
             s2 == [FinishMultiDrag(s1) EXCEPT !.gesture.isDraggingMultiple = FALSE]
             s3 == IF s2.gesture.isDrawing /\ s2.gesture.currentStroke # <<>>
                   THEN finishDrawing(s2) ELSE s2
             s4 == IF s3.gesture.isConnecting /\ s3.gesture.currentConnector # <<>>
                   THEN finishConnector(s3) ELSE s3
             \* the steps before leave isResizing and selectedObject as they found them
             s5 == IF s.gesture.isResizing /\ s.selectedObject # NoRef
                   THEN finishResize(s4) ELSE s4
         IN  IF s5.gesture.isMarqueeSelecting THEN finishMarqueeSelection(s5) ELSE s5

----------------------------------------------------------------------------
(* Text editing of sticky notes *)

startTextEditing(s, r) ==
    [s EXCEPT !.editing =
        [isEditingText |-> TRUE, editingObject |-> r,
         editingText |-> IF s.oheap[r].text = DefaultText THEN ""
                         ELSE s.oheap[r].text,
         previousTextValue |-> s.oheap[r].text]]

(* the first sticky under the pointer, highest zIndex first; groups are    *)
(* skipped by the loop.  Connector labels are not edited in the model.     *)
handleDoubleClick(s, ptr) ==
    LET hits == {i \in 1..Len(s.objects) :
                    /\ isPointInObject(ptr.x, ptr.y, s.oheap[s.objects[i]])
                    /\ s.oheap[s.objects[i]].type = "sticky"}
        Above(i, j) == LET zi == s.oheap[s.objects[i]].zIndex
                           zj == s.oheap[s.objects[j]].zIndex
                       IN  zi > zj \/ (zi = zj /\ i <= j)
    IN  IF hits = {} THEN s
        ELSE startTextEditing(s,
                 s.objects[CHOOSE i \in hits : \A j \in hits : Above(i, j)])

(* String.prototype.trim on the editor values of the model *)
Trim(t) == IF t = " " THEN "" ELSE t

NotEditing == [isEditingText |-> FALSE, editingObject |-> NoRef,
               editingText |-> "", previousTextValue |-> ""]

(* value is this.refs.textEditor.value *)
finishTextEditing(s, value) ==
    IF s.editing.editingObject = NoRef THEN s
    ELSE LET r == s.editing.editingObject
             newText == IF value # "" THEN value ELSE s.editing.editingText
             trimmedText == Trim(newText)
             previousText == s.editing.previousTextValue
             text == IF s.oheap[r].type = "sticky"
                     THEN (IF trimmedText # "" THEN trimmedText ELSE DefaultText)
                     ELSE trimmedText
             s1 == [s EXCEPT !.oheap = [@ EXCEPT ![r] = [@ EXCEPT !.text = text]]]
             s2 == IF text # previousText
                   THEN recordAction(s1, "object_text",
                            [objectId |-> s1.oheap[r].id, previousText |-> previousText])
                   ELSE s1
             s3 == publishObjectUpdate(s2, s2.oheap[r])
         IN  [s3 EXCEPT !.editing = NotEditing]

(* previousTextValue is left as it is *)
cancelTextEditing(s) ==
    [s EXCEPT !.editing = [NotEditing EXCEPT
                              !.previousTextValue = s.editing.previousTextValue]]

----------------------------------------------------------------------------
(* Tools and keyboard *)

ClearSelection(s) ==
    [s EXCEPT !.selectedObject = NoRef, !.selectedConnector = NoRef,
              !.selectedObjects = <<>>, !.selectedConnectors = <<>>]

handleSelectTool(s) == [s EXCEPT !.currentTool = "select"]

handlePanTool(s) == [ClearSelection(s) EXCEPT !.currentTool = "pan"]

handleDrawTool(s) == [ClearSelection(s) EXCEPT !.currentTool = "draw"]

handleEraserTool(s) ==
    [ClearSelection(s) EXCEPT !.currentTool = "eraser", !.hoveredStroke = <<>>,
                              !.hoveredObject = NoRef, !.hoveredConnector = NoRef]

handleSelectConnectorFromPalette(s) ==
    [s EXCEPT !.currentTool = "connector", !.selectedObject = NoRef,
              !.selectedConnector = NoRef]

Keys == {"v", "m", "d", "e", "s", "c", "g", "ctrl+z", "ctrl+y", "ctrl+c",
         "ctrl+v", "ctrl+x", "Delete", "Escape"}

(* handleKeydown; pos is the random position of a sticky added with s *)
handleKeydown(s, key, pos) ==
    IF s.editing.isEditingText THEN s
    ELSE CASE key = "v" -> [s EXCEPT !.currentTool = "select"]
           [] key = "m" -> [ClearSelection(s) EXCEPT !.currentTool = "pan"]
           [] key = "d" -> [s EXCEPT !.currentTool = "draw"]
           [] key = "e" -> [s EXCEPT !.currentTool = "eraser"]
           [] key = "s" -> addSticky(s, pos)
           [] key = "c" -> [s EXCEPT !.currentTool = "connector"]
           [] key = "ctrl+z" -> undo(s)
           [] key = "ctrl+y" -> redo(s)
           [] key = "ctrl+c" -> handleCopy(s)
           [] key = "ctrl+v" -> handlePaste(s)
           [] key = "ctrl+x" -> handleCut(s)
           [] key = "g" ->
                IF s.selectedObject # NoRef /\ s.oheap[s.selectedObject].type = "group"
                THEN ungroupSelection(s)
                ELSE IF Len(s.selectedObjects) + Len(s.selectedConnectors) >= 2
                THEN createGroupFromSelection(s)
                ELSE s
           [] key = "Delete" ->
                IF Len(s.selectedObjects) > 0 \/ Len(s.selectedConnectors) > 0
                THEN deleteSelectedObjects(s)
                ELSE IF s.selectedConnector # NoRef THEN deleteSelectedConnector(s)
                ELSE IF s.selectedObject # NoRef THEN deleteSelectedObject(s)
                ELSE s
           [] key = "Escape" -> ClearSelection(s)
           [] OTHER -> s

----------------------------------------------------------------------------
(* Cursor system.  An Apex call is issued by one handler and settled by a  *)
(* later one: presence.calls holds the calls under way, each with the      *)
(* locals its continuation reads.                                          *)

CURSOR_UPDATE_THROTTLE == 50

DELTA_THRESHOLD == 10

STALE_THRESHOLD == 60000

Abs(n) == IF n < 0 THEN -n ELSE n

(* sendCursorUpdate up to its await; issued remembers the call issued last *)
sendCursorUpdate(s, x, y) ==
    LET c == s.presence
        dx == Abs(x - c.lastSentCursor.x)
        dy == Abs(y - c.lastSentCursor.y)
    IN  IF (dx > DELTA_THRESHOLD \/ dy > DELTA_THRESHOLD)
            /\ c.now - c.lastCursorSendTime > CURSOR_UPDATE_THROTTLE
        THEN [s EXCEPT !.presence.calls =
                          Append(@, [call |-> "updateCursor", x |-> x, y |-> y,
                                     now |-> c.now]),
                       !.presence.issued = <<[x |-> x, y |-> y, at |-> c.now]>>]
        ELSE s

(* sendCursorUpdate after its await *)
updateCursorResolved(s, call) ==
    [s EXCEPT !.presence.lastSentCursor = [x |-> call.x, y |-> call.y],
              !.presence.lastCursorSendTime = call.now]

updateCursorRejected(s, call) == s

(* the timer callback of startCursorPolling: pollCursors up to its await *)
pollCursors(s) ==
    [s EXCEPT !.presence.calls = Append(@, [call |-> "getAllCursors"])]

(* Mutant: a cursor exactly STALE_THRESHOLD old still counts as connected *)
getAllCursorsResolved_inclusive(s, cursors) ==
    LET c == s.presence
    IN  [s EXCEPT
           !.presence.targetCursors = cursors,
           !.presence.remoteCursors =
               [id \in DOMAIN cursors |->
                   IF id \in DOMAIN c.remoteCursors THEN c.remoteCursors[id]
                   ELSE cursors[id]],
           !.presence.connectedUsers =
               {id \in DOMAIN cursors :
                   c.now - cursors[id].timestamp <= STALE_THRESHOLD}]

(* pollCursors after its await; cursors is the parsed result, by user id *)
getAllCursorsResolved(s, cursors) ==
    LET c == s.presence
    IN  [s EXCEPT
           !.presence.targetCursors = cursors,
           !.presence.remoteCursors =
               [id \in DOMAIN cursors |->
                   IF id \in DOMAIN c.remoteCursors THEN c.remoteCursors[id]
                   ELSE cursors[id]],
           !.presence.connectedUsers =
               {id \in DOMAIN cursors :
                   c.now - cursors[id].timestamp < STALE_THRESHOLD}]

(* Mutant: a failed poll forgets the cursors *)
getAllCursorsRejected_forget(s) ==
    [s EXCEPT !.presence.targetCursors = <<>>, !.presence.remoteCursors = <<>>,
              !.presence.connectedUsers = {}]

(* the catch block of pollCursors *)
getAllCursorsRejected(s) == s

(* the timer callback of startHeartbeat *)
startHeartbeat(s) ==
    [s EXCEPT !.presence.calls = Append(@, [call |-> "heartbeat"])]

(* the mouse-move handler with its cursor update: nothing is sent while    *)
(* the canvas is panned                                                    *)
handleMouseMoveAndCursor(s, ptr) ==
    IF s.gesture.isPanning THEN handleMouseMove(s, ptr)
    ELSE handleMouseMove(sendCursorUpdate(s, ptr.x, ptr.y), ptr)

(* cleanup: the leave is announced, the cursor removed, the timers stopped *)
cleanup(s) ==
    LET s1 == Publish(s, "user_leave", [userId |-> Me])
    IN  [s1 EXCEPT !.presence.calls = Append(@, [call |-> "removeCursor"]),
                   !.presence.timers = FALSE]

(* the continuation of the i-th call under way *)
Settle(s, i, ok, cursors) ==
    LET call == s.presence.calls[i]
        s1 == [s EXCEPT !.presence.calls = RemoveAt(@, i)]
    IN  CASE call.call = "updateCursor" ->
                IF ok THEN updateCursorResolved(s1, call)
                ELSE updateCursorRejected(s1, call)
          [] call.call = "getAllCursors" ->
                IF ok THEN getAllCursorsResolved(s1, cursors)
                ELSE getAllCursorsRejected(s1)
          [] OTHER -> s1

----------------------------------------------------------------------------
(* The state after construction *)

NoGesture ==
    [isPanning |-> FALSE, isDragging |-> FALSE,
     dragOffset |-> [x |-> 0, y |-> 0], dragStartState |-> <<>>,
     isDraggingMultiple |-> FALSE, lastDragPosition |-> [x |-> 0, y |-> 0],
     isDrawing |-> FALSE, currentStroke |-> <<>>,
     isConnecting |-> FALSE, currentConnector |-> <<>>,
     isMarqueeSelecting |-> FALSE,
     marqueeStart |-> [x |-> 0, y |-> 0], marqueeEnd |-> [x |-> 0, y |-> 0],
     isResizing |-> FALSE, activeResizeHandle |-> "none", resizeStartState |-> <<>>]

NoHist ==
    [recRun |-> 0, undoRun |-> 0, reverted |-> 0, recorded |-> 0,
     phase |-> "idle", snap |-> <<>>,
     deletedObjects |-> {}, deletedStrokes |-> {}, deletedConnectors |-> {}]

(* the clock when the component is constructed *)
StartTime == 1000

(* the cursor fields after construction, no call under way *)
NoPresence ==
    [now |-> StartTime,
     lastSentCursor |-> [x |-> 0, y |-> 0], lastCursorSendTime |-> 0,
     remoteCursors |-> <<>>, targetCursors |-> <<>>, connectedUsers |-> {},
     calls |-> <<>>, issued |-> <<>>, timers |-> TRUE]

(* a component right after construction *)
NewComponent ==
    [objects |-> <<>>, connectors |-> <<>>, strokes |-> <<>>,
     oheap |-> [r \in Refs |-> BlankObj], cheap |-> [r \in Refs |-> BlankConn],
     selectedObject |-> NoRef, selectedConnector |-> NoRef,
     selectedObjects |-> <<>>, selectedConnectors |-> <<>>,
     hoveredObject |-> NoRef, hoveredConnector |-> NoRef, hoveredStroke |-> <<>>,
     currentTool |-> "select", gesture |-> NoGesture, editing |-> NotEditing,
     undoStack |-> <<>>, redoStack |-> <<>>,
     clipboard |-> [objects |-> <<>>, connectors |-> <<>>, pasteCount |-> 0],
     idKind |-> [i \in LocalIds |-> "none"], errorMessage |-> "",
     outbox |-> <<>>, saves |-> <<>>, recorded |-> 0, overflow |-> FALSE,
     publishFails |-> FALSE, failed |-> <<>>,
     isLoading |-> TRUE, toasts |-> <<>>, presence |-> NoPresence]

NoWire == [toPeer |-> <<>>, toMe |-> <<>>]

Init ==
    /\ objects = <<>>
    /\ connectors = <<>>
    /\ strokes = <<>>
    /\ oheap = [r \in Refs |-> BlankObj]
    /\ cheap = [r \in Refs |-> BlankConn]
    /\ selectedObject = NoRef
    /\ selectedConnector = NoRef
    /\ selectedObjects = <<>>
    /\ selectedConnectors = <<>>
    /\ hoveredObject = NoRef
    /\ hoveredConnector = NoRef
    /\ hoveredStroke = <<>>
    /\ currentTool = "select"
    /\ gesture = NoGesture
    /\ editing = NotEditing
    /\ undoStack = <<>>
    /\ redoStack = <<>>
    /\ clipboard = [objects |-> <<>>, connectors |-> <<>>, pasteCount |-> 0]
    /\ idKind = [i \in LocalIds |-> "none"]
    /\ errorMessage = ""
    /\ outbox = <<>>
    /\ saves = <<>>
    /\ last = [op |-> "init", arg |-> <<>>, recorded |-> 0, redoBefore |-> 0]
    /\ hist = NoHist
    /\ steps = 0
    /\ peer = NewComponent
    /\ wire = NoWire
    /\ isLoading = TRUE
    /\ toasts = <<>>
    /\ presence = NoPresence

----------------------------------------------------------------------------
(* Bookkeeping for the history properties: hist is written by every step   *)
(* and read by no handler.                                                 *)

StepKind(op, arg) ==
    IF op = "handleUndo" \/ (op = "handleKeydown" /\ arg = "ctrl+z") THEN "undo"
    ELSE IF op = "handleRedo" \/ (op = "handleKeydown" /\ arg = "ctrl+y") THEN "redo"
    ELSE "other"

(* the local deletion paths: delete key, cut, eraser click *)
IsLocalDelete(op, arg) ==
    \/ op = "handleKeydown" /\ arg \in {"Delete", "ctrl+x"}
    \/ op = "handleMouseDown" /\ currentTool = "eraser"

ObjectSet(s) == {s.oheap[r] : r \in Range(s.objects)}

ConnectorSet(s) == {s.cheap[r] : r \in Range(s.connectors)}

StrokeSet(s) == Range(s.strokes)

HistNext(s, op, arg) ==
    LET kind == StepKind(op, arg)
        starts == kind = "undo" /\ redoStack = <<>> /\ undoStack # <<>>
        reverts == kind = "undo" /\ Len(s.redoStack) = Len(redoStack) + 1
        del == IsLocalDelete(op, arg)
    IN  [recRun |-> IF kind = "undo" THEN hist.recRun
                    ELSE IF kind = "other" /\ s.recorded > 0
                    THEN (IF hist.undoRun > 0 THEN 1 ELSE hist.recRun + 1)
                    ELSE 0,
         undoRun |-> IF kind = "undo" THEN hist.undoRun + 1 ELSE 0,
         reverted |-> IF kind = "undo"
                      THEN hist.reverted + (IF reverts THEN 1 ELSE 0) ELSE 0,
         recorded |-> hist.recorded + s.recorded,
         phase |-> IF starts \/ (kind = "undo" /\ hist.phase = "undoing")
                   THEN (IF s.undoStack = <<>> THEN "undone" ELSE "undoing")
                   ELSE IF kind = "redo" /\ hist.phase \in {"undone", "redoing"}
                   THEN (IF s.redoStack = <<>> THEN "redone" ELSE "redoing")
                   ELSE "idle",
         snap |-> IF starts THEN <<SceneOf(State)>>
                  ELSE IF (kind = "undo" /\ hist.phase = "undoing")
                          \/ (kind = "redo" /\ hist.phase \in {"undone", "redoing"})
                  THEN hist.snap
                  ELSE <<>>,
         deletedObjects |-> IF del THEN ObjectSet(State) \ ObjectSet(s) ELSE {},
         deletedStrokes |-> IF del THEN StrokeSet(State) \ StrokeSet(s) ELSE {},
         deletedConnectors |->
             IF del THEN ConnectorSet(State) \ ConnectorSet(s) ELSE {}]

(* One handler has run to completion: s is the state it leaves.  Cells no  *)
(* reference reaches any more are blanked (garbage).                       *)
(* p, w: what the step leaves of the peer and of the events under way *)
CommitWith(s, op, arg, p, w) ==
    /\ ~s.overflow
    /\ objects' = s.objects
    /\ connectors' = s.connectors
    /\ strokes' = s.strokes
    /\ oheap' = [r \in Refs |-> IF r \in ReachO(s) THEN s.oheap[r] ELSE BlankObj]
    /\ cheap' = [r \in Refs |-> IF r \in ReachC(s) THEN s.cheap[r] ELSE BlankConn]
    /\ selectedObject' = s.selectedObject
    /\ selectedConnector' = s.selectedConnector
    /\ selectedObjects' = s.selectedObjects
    /\ selectedConnectors' = s.selectedConnectors
    /\ hoveredObject' = s.hoveredObject
    /\ hoveredConnector' = s.hoveredConnector
    /\ hoveredStroke' = s.hoveredStroke
    /\ currentTool' = s.currentTool
    /\ gesture' = s.gesture
    /\ editing' = s.editing
    /\ undoStack' = s.undoStack
    /\ redoStack' = s.redoStack
    /\ clipboard' = s.clipboard
    /\ idKind' = s.idKind
    /\ errorMessage' = s.errorMessage
    /\ outbox' = s.outbox
    /\ saves' = s.saves
    /\ last' = [op |-> op, arg |-> arg, recorded |-> s.recorded,
                 redoBefore |-> Len(redoStack)]
    /\ hist' = HistNext(s, op, arg)
    /\ steps' = steps + 1
    /\ peer' = p
    /\ wire' = w
    /\ isLoading' = s.isLoading
    /\ toasts' = s.toasts
    /\ presence' = s.presence

(* a step of this client alone *)
Commit(s, op, arg) == CommitWith(s, op, arg, peer, wire)

----------------------------------------------------------------------------
(* Loading the saved canvas *)

RECURSIVE LoadObjects(_, _)
LoadObjects(s, recs) ==
    IF recs = <<>> THEN s ELSE LoadObjects(PushObjectCopy(s, Head(recs)), Tail(recs))

RECURSIVE LoadConnectors(_, _)
LoadConnectors(s, recs) ==
    IF recs = <<>> THEN s
    ELSE LoadConnectors(PushConnectorCopy(s, Head(recs)), Tail(recs))

(* loadState: the parsed arrays take the place of the collections *)
loadState(s, saved) ==
    LET s1 == LoadObjects([s EXCEPT !.objects = <<>>], saved.objects)
        s2 == [s1 EXCEPT !.strokes = saved.strokes]
    IN  LoadConnectors([s2 EXCEPT !.connectors = <<>>], saved.connectors)

(* handleSave: the blob is handed to saveCanvasState, and the outcome of   *)
(* the call is shown                                                       *)
handleSave(s, ok) ==
    LET s1 == [s EXCEPT !.saves = Append(@, SceneOf(s))]
    IN  IF ok THEN showToast(s1, "Success", "success")
        ELSE showToast(s1, "Error", "error")

announceJoin(s) == Publish(s, "user_join", [timestamp |-> s.presence.now])

(* initializeCanvas: context tells whether the drawing context could be    *)
(* set up, loaded whether loadCanvasState resolved; loadState catches its  *)
(* own failure and returns normally                                        *)
initializeCanvas(s, context, loaded, saved) ==
    IF ~context
    THEN [s EXCEPT !.errorMessage = "Failed to initialize canvas",
                   !.isLoading = FALSE]
    ELSE LET s1 == IF loaded THEN loadState(s, saved) ELSE s
         IN  [announceJoin(s1) EXCEPT !.isLoading = FALSE]

hasError(s) == s.errorMessage # ""

isReady(s) == ~s.isLoading /\ ~hasError(s)

----------------------------------------------------------------------------
(* Inputs: what a peer can send and what was saved *)

RemoteSticky(id) ==
    [id |-> id, type |-> "sticky", x |-> 100, y |-> 100, width |-> StickySize,
     height |-> StickySize, color |-> "yellow", text |-> DefaultText,
     zIndex |-> 1, children |-> <<>>, connectorIds |-> <<>>]

RemoteStroke(id) ==
    [id |-> id, points |-> <<[x |-> 300, y |-> 100], [x |-> 400, y |-> 100]>>]

(* a connector from the right anchor of the saved sticky to a free point *)
RemoteConnector(id, objectId) ==
    [id |-> id, startX |-> 250, startY |-> 175, endX |-> 400, endY |-> 175,
     startAnchor |-> [objectId |-> objectId, position |-> "right"],
     endAnchor |-> NoAnchor, label |-> "", zIndex |-> 2]

RemoteGroupIds == {111}

RemoteGroup(id, childId) ==
    [id |-> id, type |-> "group", x |-> 100, y |-> 100, width |-> StickySize,
     height |-> StickySize, color |-> "", text |-> "", zIndex |-> 3,
     children |-> <<childId>>, connectorIds |-> <<>>]

SavedScene ==
    [objects |-> <<RemoteSticky(101)>>, strokes |-> <<RemoteStroke(201)>>,
     connectors |-> <<RemoteConnector(301, 101)>>]

Event(userId, canvasId, eventType, payload) ==
    [userId |-> userId, canvasId |-> canvasId, eventType |-> eventType,
     payload |-> payload]

(* the payloads a peer sends about objects, strokes and connectors *)
ObjectEvents(ids) ==
    {Event(Peer, ThisCanvas, "object_add", RemoteSticky(id)) : id \in ids}
    \cup {Event(Peer, ThisCanvas, "object_move", [id |-> id, x |-> 120, y |-> 140]) :
            id \in ids}
    \cup {Event(Peer, ThisCanvas, "object_resize",
                [id |-> id, x |-> 100, y |-> 100, width |-> 200, height |-> 100]) :
            id \in ids}
    \cup {Event(Peer, ThisCanvas, "object_style", [id |-> id, color |-> "blue"]) :
            id \in ids}
    \cup {Event(Peer, ThisCanvas, "object_layer", [id |-> id, zIndex |-> 5]) :
            id \in ids}
    \cup {Event(Peer, ThisCanvas, "object_delete", [id |-> id]) : id \in ids}

StrokeEvents(ids) ==
    {Event(Peer, ThisCanvas, "draw_stroke", RemoteStroke(id)) : id \in ids}
    \cup {Event(Peer, ThisCanvas, "stroke_delete", [id |-> id]) : id \in ids}

ConnectorEvents(ids) ==
    {Event(Peer, ThisCanvas, "connector_add", RemoteConnector(id, 101)) : id \in ids}
    \cup {Event(Peer, ThisCanvas, "connector_update",
                [id |-> id, endX |-> 400, endY |-> 300]) : id \in ids}
    \cup {Event(Peer, ThisCanvas, "connector_layer", [id |-> id, zIndex |-> 5]) :
            id \in ids}
    \cup {Event(Peer, ThisCanvas, "connector_delete", [id |-> id]) : id \in ids}

GroupEvents(ids) ==
    {Event(Peer, ThisCanvas, "group_create", RemoteGroup(id, 101)) : id \in ids}
    \cup {Event(Peer, ThisCanvas, "group_ungroup",
                [groupId |-> id, childIds |-> <<101>>]) : id \in ids}

PresenceEvents ==
    {Event(Peer, ThisCanvas, "user_join", [userId |-> Peer]),
     Event(Peer, ThisCanvas, "user_leave", [userId |-> Peer])}

(* the same events as this client's own echo and as another canvas's *)
Misaddressed(events) ==
    {[e EXCEPT !.userId = Me] : e \in events}
        \cup {[e EXCEPT !.canvasId = OtherCanvas] : e \in events}

----------------------------------------------------------------------------
(* Actions: one per handler *)

LoadState ==
    /\ steps = 0
    /\ Commit(loadState(State, SavedScene), "loadState", <<>>)

PlatformEvent(data) ==
    Commit(handlePlatformEvent(State, data), "handlePlatformEvent", data)

(* toolbar and pointer events reach the canvas after the text editor has   *)
(* lost the focus, which finishes the editing                              *)
AddSticky(pos) ==
    /\ ~editing.isEditingText
    /\ Commit(addSticky(State, pos), "addSticky", pos)

GestureActive ==
    \/ gesture.isPanning \/ gesture.isDragging \/ gesture.isDraggingMultiple
    \/ gesture.isDrawing \/ gesture.isConnecting \/ gesture.isMarqueeSelecting
    \/ gesture.isResizing

(* a button goes down when none is held *)
MouseDown(ptr) ==
    /\ ~editing.isEditingText
    /\ ~GestureActive
    /\ Commit(handleMouseDown(State, ptr), "handleMouseDown", ptr)

MouseMove(ptr) ==
    /\ ~editing.isEditingText
    /\ Commit(handleMouseMove(State, ptr), "handleMouseMove", ptr)

MouseUp ==
    /\ ~editing.isEditingText
    /\ GestureActive
    /\ Commit(handleMouseUp(State), "handleMouseUp", <<>>)

DoubleClick(ptr) ==
    /\ ~editing.isEditingText
    /\ ~GestureActive
    /\ Commit(handleDoubleClick(State, ptr), "handleDoubleClick", ptr)

FinishTextEditing(value) ==
    /\ editing.isEditingText
    /\ Commit(finishTextEditing(State, value), "finishTextEditing", value)

CancelTextEditing ==
    /\ editing.isEditingText
    /\ Commit(cancelTextEditing(State), "cancelTextEditing", <<>>)

SelectTool ==
    /\ ~editing.isEditingText
    /\ Commit(handleSelectTool(State), "handleSelectTool", <<>>)

PanTool ==
    /\ ~editing.isEditingText
    /\ Commit(handlePanTool(State), "handlePanTool", <<>>)

DrawTool ==
    /\ ~editing.isEditingText
    /\ Commit(handleDrawTool(State), "handleDrawTool", <<>>)

EraserTool ==
    /\ ~editing.isEditingText
    /\ Commit(handleEraserTool(State), "handleEraserTool", <<>>)

ConnectorTool ==
    /\ ~editing.isEditingText
    /\ Commit(handleSelectConnectorFromPalette(State),
              "handleSelectConnectorFromPalette", <<>>)

KeyDown(key, pos) ==
    Commit(handleKeydown(State, key, pos), "handleKeydown", key)

HandleUndo ==
    /\ ~editing.isEditingText
    /\ Commit(undo(State), "handleUndo", <<>>)

HandleRedo ==
    /\ ~editing.isEditingText
    /\ Commit(redo(State), "handleRedo", <<>>)

----------------------------------------------------------------------------
(* Input sets of the pointer and keyboard actions *)

PointerPoints ==
    {[x |-> 110, y |-> 110], [x |-> 260, y |-> 280], [x |-> 400, y |-> 400]}

Pointers(points) ==
    {[x |-> p.x, y |-> p.y, ctrlKey |-> c, connector |-> k, stroke |-> t] :
        p \in points, c \in BOOLEAN,
        k \in {NoRef} \cup Range(connectors),
        t \in {<<>>} \cup {<<q>> : q \in Range(strokes)}}

(* the tools whose mouse-down goes to handleSelection *)
Selecting == currentTool \notin {"pan", "eraser", "draw", "connector"}

(* the inputs a handler does not read are left at their defaults *)
DownPointers(points) ==
    {ptr \in Pointers(points) :
        /\ ptr.stroke = <<>>
        /\ ptr.ctrlKey => Selecting /\ findObjectAt(State, ptr.x, ptr.y) # NoRef
        /\ ptr.connector # NoRef =>
              Selecting /\ findObjectAt(State, ptr.x, ptr.y) = NoRef}

Hovering ==
    /\ currentTool = "eraser"
    /\ ~gesture.isPanning /\ ~gesture.isMarqueeSelecting
    /\ ~(gesture.isDraggingMultiple /\ Len(selectedObjects) > 1)

MovePointers(points) ==
    {ptr \in Pointers(points) :
        /\ ~ptr.ctrlKey
        /\ ptr.stroke # <<>> => Hovering
        /\ ptr.connector # NoRef =>
              /\ Hovering
              /\ ptr.stroke = <<>>
              /\ findObjectAt(State, ptr.x, ptr.y) = NoRef}

ClickPointers(points) ==
    {ptr \in Pointers(points) :
        ~ptr.ctrlKey /\ ptr.stroke = <<>> /\ ptr.connector = NoRef}

EditorValues == {"", " ", "a"}

KeyPositions(key) == IF key = "s" THEN Positions ELSE {[x |-> 0, y |-> 0]}

(* the ids this client has generated for entities of one kind; peers know *)
(* them from the events it has published                                   *)
LocalIdsOf(kind) == {i \in LocalIds : idKind[i] = kind}

InboundEvents ==
    LET events == ObjectEvents(RemoteObjIds \cup LocalIdsOf("object"))
                    \cup StrokeEvents(RemoteStrokeIds \cup LocalIdsOf("stroke"))
                    \cup ConnectorEvents(RemoteConnIds \cup LocalIdsOf("connector"))
                    \cup GroupEvents(RemoteGroupIds \cup LocalIdsOf("group"))
                    \cup PresenceEvents
    IN  events \cup Misaddressed(events)

----------------------------------------------------------------------------
(* Every handler, a bounded number of steps *)

Next ==
    /\ steps < MaxSteps
    /\ \/ LoadState
       \/ \E data \in InboundEvents : PlatformEvent(data)
       \/ \E pos \in Positions : AddSticky(pos)
       \/ \E ptr \in DownPointers(PointerPoints) : MouseDown(ptr)
       \/ \E ptr \in MovePointers(PointerPoints) : MouseMove(ptr)
       \/ MouseUp
       \/ \E ptr \in ClickPointers(PointerPoints) : DoubleClick(ptr)
       \/ \E value \in EditorValues : FinishTextEditing(value)
       \/ CancelTextEditing
       \/ SelectTool
       \/ PanTool
       \/ DrawTool
       \/ EraserTool
       \/ ConnectorTool
       \/ \E key \in Keys : \E pos \in KeyPositions(key) : KeyDown(key, pos)
       \/ HandleUndo
       \/ HandleRedo

Spec == Init /\ [][Next]_vars

----------------------------------------------------------------------------
(* Properties of the inbound event handling *)

Addressed(data) == data.userId # Me /\ data.canvasId = ThisCanvas

HandledEvent == last.op = "handlePlatformEvent"

IdCount(seq, id) == Cardinality({i \in 1..Len(seq) : seq[i].id = id})

Scene == SceneOf(State)

(* C3: an inbound event with this client's own user id, or with another    *)
(* canvas id, changes neither objects, strokes, connectors, the undo and   *)
(* redo stacks nor the selection, and it saves and publishes nothing.      *)
C3_MisaddressedEventDiscarded ==
    [][(last'.op = "handlePlatformEvent" /\ ~Addressed(last'.arg)) =>
          /\ UNCHANGED <<objects, strokes, connectors, oheap, cheap, undoStack,
                         redoStack, selectedObject, selectedConnector,
                         selectedObjects, selectedConnectors>>
          /\ outbox' = <<>>
          /\ saves' = <<>>]_vars

(* the client has added a sticky and got its own object_add back: one      *)
(* sticky, one undo entry                                                  *)
C3_Witness ==
    /\ HandledEvent
    /\ last.arg.userId = Me
    /\ last.arg.eventType = "object_add"
    /\ last.arg.payload.id \in LocalIds
    /\ IdCount(Scene.objects, last.arg.payload.id) = 1
    /\ Len(undoStack) = 1

(* the event types that refer to an entity that has to exist, and the id   *)
(* they refer to                                                           *)
ReferringTypes ==
    {"object_delete", "stroke_delete", "connector_delete", "object_move",
     "object_resize", "object_style", "object_layer", "connector_layer",
     "connector_update", "group_ungroup"}

ReferredId(data) ==
    IF data.eventType = "group_ungroup" THEN data.payload.groupId
    ELSE data.payload.id

RefersToUnknown(data) ==
    /\ data.eventType \in ReferringTypes
    /\ IdCount(Scene.objects, ReferredId(data)) = 0
    /\ IdCount(Scene.strokes, ReferredId(data)) = 0
    /\ IdCount(Scene.connectors, ReferredId(data)) = 0

(* C4: an inbound event about an id that is not present leaves the         *)
(* contents of objects, strokes and connectors as they were and sets no    *)
(* error.                                                                  *)
C4_UnknownIdIsNoOp ==
    [][(/\ last'.op = "handlePlatformEvent"
        /\ Addressed(last'.arg)
        /\ RefersToUnknown(last'.arg)) =>
          /\ Scene' = Scene
          /\ errorMessage' = errorMessage]_vars

(* a peer's object_move for an id this client does not hold has been       *)
(* handled while the scene holds other entities                            *)
C4_Witness ==
    /\ HandledEvent
    /\ Addressed(last.arg)
    /\ last.arg.eventType = "object_move"
    /\ IdCount(Scene.objects, last.arg.payload.id) = 0
    /\ Len(objects) > 0

(* the ids the hover and selection references point at *)
ReferencedObjectIds ==
    {oheap[r].id : r \in (Range(selectedObjects)
                            \cup {selectedObject, hoveredObject}) \ {NoRef}}

ReferencedConnectorIds ==
    {cheap[r].id : r \in (Range(selectedConnectors)
                            \cup {selectedConnector, hoveredConnector}) \ {NoRef}}

ReferencedStrokeIds == {k.id : k \in Range(hoveredStroke)}

(* C5: once an inbound object_delete, stroke_delete or connector_delete    *)
(* for an id has been applied, no hover or selection reference points at   *)
(* an entity with that id.                                                 *)
C5_NoReferenceToRemotelyDeleted ==
    (HandledEvent /\ Addressed(last.arg)) =>
        /\ last.arg.eventType = "object_delete" =>
              last.arg.payload.id \notin ReferencedObjectIds
        /\ last.arg.eventType = "stroke_delete" =>
              last.arg.payload.id \notin ReferencedStrokeIds
        /\ last.arg.eventType = "connector_delete" =>
              last.arg.payload.id \notin ReferencedConnectorIds

----------------------------------------------------------------------------
(* Redelivered adds next to delete, undo and redo *)

MaxDupSteps == 7

AddTypes == {"object_add", "draw_stroke", "connector_add"}

AddEvents == {e \in InboundEvents : Addressed(e) /\ e.eventType \in AddTypes}

EditKeys == {"Delete", "ctrl+z", "ctrl+y"}

NextDup ==
    /\ steps < MaxDupSteps
    /\ \/ LoadState
       \/ \E data \in AddEvents : PlatformEvent(data)
       \/ \E ptr \in ClickPointers(PointerPoints) : MouseDown(ptr)
       \/ MouseUp
       \/ \E key \in EditKeys : KeyDown(key, [x |-> 0, y |-> 0])

SpecDup == Init /\ [][NextDup]_vars

(* the collection an add event inserts into *)
CollectionOf(eventType) ==
    CASE eventType = "object_add" -> Scene.objects
      [] eventType = "draw_stroke" -> Scene.strokes
      [] eventType = "connector_add" -> Scene.connectors

(* C1: when the same object_add, connector_add or draw_stroke event is     *)
(* applied twice in a row, the collection holds exactly one entity with    *)
(* the event's id and the second application has changed none of objects,  *)
(* strokes and connectors.                                                 *)
C1_AddTwiceYieldsOne ==
    [][(/\ last.op = "handlePlatformEvent"
        /\ last'.op = "handlePlatformEvent"
        /\ last'.arg = last.arg
        /\ Addressed(last.arg)
        /\ last.arg.eventType \in AddTypes) =>
          /\ IdCount(CollectionOf(last.arg.eventType)', last.arg.payload.id) = 1
          /\ Scene' = Scene]_vars

AllEntities == Scene.objects \o Scene.strokes \o Scene.connectors

(* C2: no two entities of objects, strokes and connectors share an id *)
C2_IdsUnique ==
    \A i, j \in 1..Len(AllEntities) :
        AllEntities[i].id = AllEntities[j].id => i = j

----------------------------------------------------------------------------
(* Stickies added one after the other, undo and redo *)

MaxHistorySteps == 12

NextHistory ==
    /\ steps < MaxHistorySteps
    /\ \/ \E pos \in Positions : AddSticky(pos)
       \/ KeyDown("ctrl+z", [x |-> 0, y |-> 0])
       \/ KeyDown("ctrl+y", [x |-> 0, y |-> 0])

SpecHistory == Init /\ [][NextHistory]_vars

(* C7: when n <= 50 recorded actions in a row are followed by k <= n       *)
(* undos in a row, each of the k undos has reverted an action.             *)
C7_FiftyStepHistory ==
    (hist.undoRun <= hist.recRun /\ hist.recRun <= ReadmeHistory) =>
        hist.reverted = hist.undoRun

----------------------------------------------------------------------------
(* Local editing with undo and redo; no inbound events.  Steps that leave  *)
(* every field of the component as it is are not taken.                    *)

MaxUndoSteps == 6

LocalKeys == {"d", "e", "c", "v", "g", "ctrl+z", "ctrl+y", "ctrl+c", "ctrl+v",
              "ctrl+x", "Delete", "Escape"}

LocalEdit ==
    \/ LoadState
    \/ \E pos \in Positions : AddSticky(pos)
    \/ \E ptr \in DownPointers(PointerPoints) : MouseDown(ptr)
    \/ \E ptr \in MovePointers(PointerPoints) : MouseMove(ptr)
    \/ MouseUp
    \/ \E ptr \in ClickPointers(PointerPoints) : DoubleClick(ptr)
    \/ \E value \in EditorValues : FinishTextEditing(value)
    \/ \E key \in LocalKeys : KeyDown(key, [x |-> 0, y |-> 0])

NextUndo ==
    /\ steps < MaxUndoSteps
    /\ LocalEdit
    /\ State' # State

SpecUndo == Init /\ [][NextUndo]_vars

(* C8: right after a handler has recorded an action the redo stack is     *)
(* empty, and a redo leaves the component as it is.                        *)
C8_RecordClearsRedo ==
    last.recorded > 0 => redoStack = <<>> /\ redo(State) = State

(* an action has been recorded while the redo stack held an undone one *)
C8_Witness == last.recorded > 0 /\ last.redoBefore > 0 /\ redoStack = <<>>

(* C10: after a local deletion (delete key, cut, eraser click) an undo     *)
(* puts an entity equal to each deleted one back into the scene.           *)
C10_UndoRestoresEveryDeleted ==
    LET u == undo(State)
    IN  ~u.overflow =>
            /\ hist.deletedObjects \subseteq ObjectSet(u)
            /\ hist.deletedStrokes \subseteq StrokeSet(u)
            /\ hist.deletedConnectors \subseteq ConnectorSet(u)

----------------------------------------------------------------------------
(* Local editing, then every recorded action undone and redone: after the  *)
(* editing steps only the undos and redos of one such run are taken.       *)

MaxBuildSteps == 5

UndoAll ==
    /\ \/ hist.phase = "idle" /\ redoStack = <<>> /\ undoStack # <<>>
       \/ hist.phase = "undoing"
    /\ KeyDown("ctrl+z", [x |-> 0, y |-> 0])

RedoAll ==
    /\ hist.phase \in {"undone", "redoing"}
    /\ KeyDown("ctrl+y", [x |-> 0, y |-> 0])

NextSymmetry ==
    /\ \/ steps < MaxBuildSteps /\ LocalEdit
       \/ steps >= MaxBuildSteps /\ UndoAll
       \/ steps >= MaxBuildSteps /\ RedoAll
    /\ State' # State

SpecSymmetry == Init /\ [][NextSymmetry]_vars

(* C9 as the specification words it, the three arrays compared as they    *)
(* stand: when at most 5 actions have been recorded and all of them are    *)
(* undone and then all redone, objects, strokes and connectors equal what  *)
(* they were before the first undo, position by position.                  *)
C9_UndoRedoSymmetryInOrder ==
    (hist.phase = "redone" /\ hist.recorded <= UndoLimit) => Scene = hist.snap[1]

(* the same entities, each as often, in whatever order *)
SameEntities(a, b) ==
    \A e \in Range(a) \cup Range(b) :
        Cardinality({i \in 1..Len(a) : a[i] = e})
            = Cardinality({i \in 1..Len(b) : b[i] = e})

(* C9: when at most 5 actions have been recorded and all of them are       *)
(* undone and then all redone, objects, strokes and connectors hold the    *)
(* entities they held before the first undo, each equal field for field;   *)
(* only the order within an array may differ.                              *)
C9_UndoRedoSymmetry ==
    (hist.phase = "redone" /\ hist.recorded <= UndoLimit) =>
        /\ SameEntities(Scene.objects, hist.snap[1].objects)
        /\ SameEntities(Scene.strokes, hist.snap[1].strokes)
        /\ SameEntities(Scene.connectors, hist.snap[1].connectors)

(* two recorded actions of different types have been undone and redone *)
C9_Witness ==
    /\ hist.phase = "redone"
    /\ hist.recorded <= UndoLimit
    /\ Len(undoStack) = 2
    /\ undoStack[1].type # undoStack[2].type

----------------------------------------------------------------------------
(* Undoing a group *)

UndoKeyed == last.op = "handleKeydown" /\ last.arg = "ctrl+z"

(* the action an undo would take from the stack is the creation of a       *)
(* group that is still there                                               *)
UndoesGroupCreate ==
    /\ ~editing.isEditingText
    /\ undoStack # <<>>
    /\ undoStack[Len(undoStack)].type = "group_create"
    /\ IdCount(Scene.objects, undoStack[Len(undoStack)].data.groupId) > 0

UndoneGroupId == undoStack[Len(undoStack)].data.groupId

NotUndoneGroup(obj) == obj.id # UndoneGroupId

(* C11: undoing a group_create removes the group object only: every other  *)
(* object, and every connector and stroke, is there afterwards with its    *)
(* fields unchanged, and the one event published is a group_ungroup for    *)
(* the group (no object_delete).                                           *)
C11_UndoGroupCreateKeepsChildren ==
    [][(UndoKeyed' /\ UndoesGroupCreate) =>
          /\ Scene'.objects = SelectSeq(Scene.objects, NotUndoneGroup)
          /\ Scene'.connectors = Scene.connectors
          /\ Scene'.strokes = Scene.strokes
          /\ Len(outbox') = 1
          /\ outbox'[1].eventType = "group_ungroup"
          /\ outbox'[1].payload.groupId = UndoneGroupId]_vars

(* the creation of a group with a child object has just been undone, and   *)
(* the child is still in the scene                                         *)
C11_Witness ==
    /\ UndoKeyed
    /\ redoStack # <<>>
    /\ redoStack[Len(redoStack)].type = "group_create"
    /\ Len(redoStack[Len(redoStack)].data.group.children) > 0
    /\ \A i \in 1..Len(redoStack[Len(redoStack)].data.group.children) :
           IdCount(Scene.objects, redoStack[Len(redoStack)].data.group.children[i]) = 1

----------------------------------------------------------------------------
(* A peer that applies what an undo or redo publishes *)

(* the events of a handler, handled by a peer in the order published *)
RECURSIVE Deliver(_, _)
Deliver(p, events) ==
    IF events = <<>> THEN p
    ELSE Deliver(DispatchEvent(p, Head(events)), Tail(events))

UndoOrRedoKeyed == last.op = "handleKeydown" /\ last.arg \in {"ctrl+z", "ctrl+y"}

SameScene(a, b) ==
    /\ SameEntities(a.objects, b.objects)
    /\ SameEntities(a.strokes, b.strokes)
    /\ SameEntities(a.connectors, b.connectors)

(* C12: when an undo or redo changes the scene, a peer that held the same  *)
(* scene before it and handles the events the undo or redo published       *)
(* holds the same entities afterwards, equal in every field.               *)
C12_UndoRedoPublishesRestoredState ==
    [][(UndoOrRedoKeyed' /\ Scene' # Scene) =>
          LET synced == Deliver(State, outbox')
          IN  ~synced.overflow => SameScene(SceneOf(synced), Scene')]_vars

----------------------------------------------------------------------------
(* Local editing while the transport may reject a publish call *)

MaxOfflineSteps == 4

(* the component as the next handler finds it: publishEvent resolves (up)  *)
(* or rejects                                                              *)
Transport(up) == IF up THEN State ELSE Offline

NextOffline ==
    /\ steps < MaxOfflineSteps
    /\ \E up \in BOOLEAN :
          \/ LoadState
          \/ \E pos \in Positions :
                /\ ~editing.isEditingText
                /\ Commit(addSticky(Transport(up), pos), "addSticky", pos)
          \/ \E ptr \in DownPointers(PointerPoints) :
                /\ ~editing.isEditingText /\ ~GestureActive
                /\ Commit(handleMouseDown(Transport(up), ptr), "handleMouseDown", ptr)
          \/ \E ptr \in MovePointers(PointerPoints) :
                /\ ~editing.isEditingText
                /\ Commit(handleMouseMove(Transport(up), ptr), "handleMouseMove", ptr)
          \/ /\ ~editing.isEditingText /\ GestureActive
             /\ Commit(handleMouseUp(Transport(up)), "handleMouseUp", <<>>)
          \/ \E ptr \in ClickPointers(PointerPoints) :
                /\ ~editing.isEditingText /\ ~GestureActive
                /\ Commit(handleDoubleClick(Transport(up), ptr), "handleDoubleClick", ptr)
          \/ \E value \in EditorValues :
                /\ editing.isEditingText
                /\ Commit(finishTextEditing(Transport(up), value),
                          "finishTextEditing", value)
          \/ \E key \in LocalKeys :
                Commit(handleKeydown(Transport(up), key, [x |-> 0, y |-> 0]),
                       "handleKeydown", key)
    /\ State' # State \/ outbox' # <<>>

SpecOffline == Init /\ [][NextOffline]_vars

(* what outlives a handler: the scene and the two stacks *)
Durable(s) ==
    [scene |-> SceneOf(s), undoStack |-> s.undoStack, redoStack |-> s.redoStack]

(* up, down: what one handler leaves when its publish calls resolve and    *)
(* when they reject                                                        *)
SameOutcome(up, down) ==
    /\ Durable(down) = Durable(up)
    /\ down.failed = up.outbox
    /\ down.outbox = <<>>

----------------------------------------------------------------------------
(* Two clients of one canvas: this one drags an object while the peer      *)
(* edits its text.  Each direction of the transport delivers in order.     *)

MaxConvergeSteps == 8

PeerPointer(point) ==
    [x |-> point.x, y |-> point.y, ctrlKey |-> FALSE, connector |-> NoRef,
     stroke |-> <<>>]

(* a handler of this client whose events go on the wire *)
CommitPublishing(s, op, arg) ==
    CommitWith(s, op, arg, peer, [wire EXCEPT !.toPeer = @ \o s.outbox])

(* a handler of the peer: p is the state it leaves *)
CommitPeer(p, op, arg) ==
    /\ ~p.overflow
    /\ CommitWith(State, op, arg, [p EXCEPT !.outbox = <<>>, !.toasts = <<>>],
                  [wire EXCEPT !.toMe = @ \o p.outbox])

BothLoad ==
    /\ steps = 0
    /\ CommitWith(loadState(State, SavedScene), "loadState", <<>>,
                  loadState(peer, SavedScene), wire)

MyMouseDown(ptr) ==
    /\ ~GestureActive
    /\ findObjectAt(State, ptr.x, ptr.y) # NoRef
    /\ CommitPublishing(handleMouseDown(State, ptr), "handleMouseDown", ptr)

MyMouseMove(ptr) ==
    /\ gesture.isDragging
    /\ CommitPublishing(handleMouseMove(State, ptr), "handleMouseMove", ptr)

MyMouseUp ==
    /\ GestureActive
    /\ CommitPublishing(handleMouseUp(State), "handleMouseUp", <<>>)

PeerDoubleClick(ptr) ==
    /\ ~peer.editing.isEditingText
    /\ findObjectAt(peer, ptr.x, ptr.y) # NoRef
    /\ CommitPeer(handleDoubleClick(peer, ptr), "peer handleDoubleClick", ptr)

PeerFinishTextEditing(value) ==
    /\ peer.editing.isEditingText
    /\ CommitPeer(finishTextEditing(peer, value), "peer finishTextEditing", value)

DeliverToMe ==
    /\ wire.toMe # <<>>
    /\ LET e == Head(wire.toMe)
           data == Event(Peer, ThisCanvas, e.eventType, e.payload)
       IN  CommitWith(handlePlatformEvent(State, data), "handlePlatformEvent", data,
                      peer, [wire EXCEPT !.toMe = Tail(@)])

(* the peer's filter lets the event pass: another user id, the same canvas *)
DeliverToPeer ==
    /\ wire.toPeer # <<>>
    /\ LET e == Head(wire.toPeer)
           p == DispatchEvent(peer, e)
       IN  /\ ~p.overflow
           /\ CommitWith(State, "peer handlePlatformEvent", e, p,
                         [wire EXCEPT !.toPeer = Tail(@)])

NextConverge ==
    /\ steps < MaxConvergeSteps
    /\ \/ BothLoad
       \/ \E point \in PointerPoints : MyMouseDown(PeerPointer(point))
       \/ \E point \in PointerPoints : MyMouseMove(PeerPointer(point))
       \/ MyMouseUp
       \/ \E point \in PointerPoints : PeerDoubleClick(PeerPointer(point))
       \/ \E value \in EditorValues : PeerFinishTextEditing(value)
       \/ DeliverToMe
       \/ DeliverToPeer

SpecConverge == Init /\ [][NextConverge]_vars

(* every published event has been delivered and no drag or text editing    *)
(* is under way                                                            *)
Quiescent ==
    /\ wire = NoWire
    /\ ~GestureActive
    /\ ~peer.editing.isEditingText

(* C14: this client only moves objects and the peer only edits their       *)
(* text; once every event has been delivered, the two clients hold the     *)
(* same value for every field of every object.                             *)
C14_DisjointEditsConverge ==
    Quiescent => SameEntities(Scene.objects, SceneOf(peer).objects)

----------------------------------------------------------------------------
(* A peer joins *)

PeerJoins(data) == Addressed(data) /\ data.eventType = "user_join"

(* C16: handling a user_join of another user on this canvas saves once,    *)
(* and the saved blob is the objects, strokes and connectors the client    *)
(* holds when it handles the event; the scene itself is left as it was.    *)
C16_JoinSavesCurrentScene ==
    [][(last'.op = "handlePlatformEvent" /\ PeerJoins(last'.arg)) =>
          /\ saves' = <<Scene>>
          /\ Scene' = Scene]_vars

(* a join handled by a client that holds objects, strokes and connectors *)
C16_Witness ==
    /\ HandledEvent
    /\ PeerJoins(last.arg)
    /\ saves = <<Scene>>
    /\ Scene.objects # <<>>
    /\ Scene.strokes # <<>>
    /\ Scene.connectors # <<>>

----------------------------------------------------------------------------
(* Switching tools *)

NothingSelected ==
    /\ selectedObject = NoRef
    /\ selectedConnector = NoRef
    /\ selectedObjects = <<>>
    /\ selectedConnectors = <<>>

(* C20: after every change of currentTool nothing is selected and no       *)
(* gesture (pan, drag, multi-drag, draw, connect, marquee) is under way.   *)
C20_ToolSwitchClearsSelection ==
    [][currentTool' # currentTool => (NothingSelected /\ ~GestureActive)']_vars

----------------------------------------------------------------------------
(* The cursor channel: pointer moves, the clock, the two timers and the    *)
(* calls they leave under way                                              *)

MaxPresenceSteps == 5

MaxCalls == 2

Delays == {40, 50}

CursorPoints ==
    {[x |-> 110, y |-> 110], [x |-> 115, y |-> 112], [x |-> 140, y |-> 110]}

PeerCursor(timestamp) ==
    [x |-> 300, y |-> 200, name |-> "Peer", color |-> "#e74c3c",
     timestamp |-> timestamp]

(* what getAllCursors can return: nobody, a live peer, a peer last seen    *)
(* more than STALE_THRESHOLD ago                                           *)
CursorStores ==
    {<<>>} \cup {[id \in {Peer} |-> PeerCursor(ts)] :
                    ts \in {StartTime - 100, StartTime - STALE_THRESHOLD}}

Tick(d) == Commit([State EXCEPT !.presence.now = @ + d], "tick", d)

CursorMove(ptr) ==
    /\ ~editing.isEditingText
    /\ Len(presence.calls) < MaxCalls
    /\ Commit(handleMouseMoveAndCursor(State, ptr), "handleMouseMove", ptr)

PollTimer ==
    /\ presence.timers
    /\ Len(presence.calls) < MaxCalls
    /\ Commit(pollCursors(State), "pollCursors", <<>>)

HeartbeatTimer ==
    /\ presence.timers
    /\ Len(presence.calls) < MaxCalls
    /\ Commit(startHeartbeat(State), "heartbeat", <<>>)

Cleanup ==
    /\ presence.timers
    /\ Len(presence.calls) < MaxCalls
    /\ Commit(cleanup(State), "cleanup", <<>>)

(* a call under way resolves or rejects *)
SettleCall(i, ok, cursors) ==
    Commit(Settle(State, i, ok, cursors), "settle",
           [call |-> presence.calls[i].call, ok |-> ok])

Settlements ==
    {<<i, ok, cursors>> \in (1..Len(presence.calls)) \X BOOLEAN \X CursorStores :
        (presence.calls[i].call # "getAllCursors" \/ ~ok) => cursors = <<>>}

NextPresence ==
    /\ steps < MaxPresenceSteps
    /\ \/ \E d \in Delays : Tick(d)
       \/ \E ptr \in MovePointers(CursorPoints) : CursorMove(ptr)
       \/ PollTimer
       \/ HeartbeatTimer
       \/ Cleanup
       \/ \E c \in Settlements : SettleCall(c[1], c[2], c[3])

SpecPresence == Init /\ [][NextPresence]_vars

(* the updateCursor call issued last, or the fields as constructed *)
LastSend ==
    IF presence.issued = <<>> THEN [x |-> 0, y |-> 0, at |-> 0]
    ELSE presence.issued[1]

(* the updateCursor calls a step issues *)
CursorSends ==
    Cardinality({i \in 1..Len(presence'.calls) :
                    presence'.calls[i].call = "updateCursor"})
        - Cardinality({i \in 1..Len(presence.calls) :
                          presence.calls[i].call = "updateCursor"})

(* C15: a pointer move less than 10px in both axes from the position sent  *)
(* last, less than 50ms after that send, sends nothing; a move more than   *)
(* 10px from it in some axis, at least 50ms after that send, sends once.   *)
C15_CursorGating ==
    [][last'.op = "handleMouseMove" =>
          LET dx == Abs(last'.arg.x - LastSend.x)
              dy == Abs(last'.arg.y - LastSend.y)
              elapsed == presence.now - LastSend.at
          IN  /\ (dx < DELTA_THRESHOLD /\ dy < DELTA_THRESHOLD
                    /\ elapsed < CURSOR_UPDATE_THROTTLE) => CursorSends = 0
              /\ ((dx > DELTA_THRESHOLD \/ dy > DELTA_THRESHOLD)
                    /\ elapsed >= CURSOR_UPDATE_THROTTLE) => CursorSends = 1]_vars

PresenceCalls == {"updateCursor", "getAllCursors", "heartbeat", "removeCursor"}

(* C19: a presence call that rejects leaves the error state, the scene,    *)
(* the undo and redo stacks, the selection and the remote cursors as they  *)
(* were, shows no notification and issues no call in its place.            *)
C19_PresenceFailureSwallowed ==
    [][(last'.op = "settle" /\ ~last'.arg.ok /\ last'.arg.call \in PresenceCalls) =>
          /\ UNCHANGED <<objects, strokes, connectors, oheap, cheap, undoStack,
                         redoStack, selectedObject, selectedConnector,
                         selectedObjects, selectedConnectors, errorMessage,
                         isLoading>>
          /\ toasts' = <<>>
          /\ presence'.remoteCursors = presence.remoteCursors
          /\ presence'.targetCursors = presence.targetCursors
          /\ presence'.connectedUsers = presence.connectedUsers
          /\ Len(presence'.calls) = Len(presence.calls) - 1]_vars

(* a poll has failed while a peer's cursor was known *)
C19_Witness ==
    /\ last.op = "settle"
    /\ ~last.arg.ok
    /\ last.arg.call = "getAllCursors"
    /\ Peer \in DOMAIN presence.remoteCursors
    /\ errorMessage = ""
    /\ toasts = <<>>

----------------------------------------------------------------------------
(* A session: the canvas is initialized, every handler and timer may run,  *)
(* the user may save                                                       *)

MaxSessionSteps == 3

InitializeCanvas(context, loaded) ==
    /\ steps = 0
    /\ Commit(initializeCanvas(State, context, loaded, SavedScene),
              "initializeCanvas", [context |-> context, loaded |-> loaded])

(* the reload one second after the join was announced; it may fail too *)
Reload(loaded) ==
    /\ ~isLoading
    /\ ~hasError(State)
    /\ Commit(IF loaded THEN loadState(State, SavedScene) ELSE State,
              "loadState", [loaded |-> loaded])

HandleSave(ok) ==
    /\ ~editing.isEditingText
    /\ Commit(handleSave(State, ok), "handleSave", ok)

NextSession ==
    /\ steps < MaxSessionSteps
    /\ \/ \E context, loaded \in BOOLEAN : InitializeCanvas(context, loaded)
       \/ \E loaded \in BOOLEAN : Reload(loaded)
       \/ \E ok \in BOOLEAN : HandleSave(ok)
       \/ \E data \in InboundEvents : PlatformEvent(data)
       \/ \E pos \in Positions : AddSticky(pos)
       \/ \E ptr \in DownPointers(PointerPoints) : MouseDown(ptr)
       \/ \E ptr \in MovePointers(PointerPoints) : CursorMove(ptr)
       \/ MouseUp
       \/ \E ptr \in ClickPointers(PointerPoints) : DoubleClick(ptr)
       \/ \E value \in EditorValues : FinishTextEditing(value)
       \/ CancelTextEditing
       \/ SelectTool
       \/ PanTool
       \/ DrawTool
       \/ EraserTool
       \/ ConnectorTool
       \/ \E key \in Keys : \E pos \in KeyPositions(key) : KeyDown(key, pos)
       \/ HandleUndo
       \/ HandleRedo
       \/ PollTimer
       \/ HeartbeatTimer
       \/ Cleanup
       \/ \E c \in Settlements : SettleCall(c[1], c[2], c[3])

SpecSession == Init /\ [][NextSession]_vars

LoadFailed ==
    /\ last.op \in {"initializeCanvas", "loadState"}
    /\ ~last.arg.loaded
    /\ last.op = "initializeCanvas" => last.arg.context

(* C18: once a load of the saved state has failed the component holds an   *)
(* error message, hasError is true and the canvas is not shown (isReady    *)
(* is false), and the user has been notified.                              *)
C18_LoadFailureSetsError ==
    LoadFailed => /\ hasError(State)
                  /\ ~isReady(State)
                  /\ toasts # <<>>

----------------------------------------------------------------------------
(* Dragging and deleting a group: a saved canvas with two stickies, a      *)
(* connector with free end points, a group of the three, and two           *)
(* connectors from outside the group, one to the group's top anchor and    *)
(* one to the second sticky's bottom anchor                                *)

MaxGroupSteps == 6

GroupedScene ==
    [objects |->
        <<[RemoteSticky(101) EXCEPT !.x = 100, !.y = 100, !.zIndex = 1],
          [RemoteSticky(102) EXCEPT !.x = 300, !.y = 100, !.zIndex = 2],
          [id |-> 111, type |-> "group", x |-> 100, y |-> 100,
           width |-> 200 + StickySize, height |-> StickySize,
           color |-> "", text |-> "", zIndex |-> 4,
           children |-> <<101, 102>>, connectorIds |-> <<301>>]>>,
     strokes |-> <<>>,
     connectors |->
        <<[id |-> 301, startX |-> 150, startY |-> 300, endX |-> 400, endY |-> 300,
           startAnchor |-> NoAnchor, endAnchor |-> NoAnchor, label |-> "",
           zIndex |-> 3],
          [id |-> 302, startX |-> 275, startY |-> 100, endX |-> 275, endY |-> 40,
           startAnchor |-> [objectId |-> 111, position |-> "top"],
           endAnchor |-> NoAnchor, label |-> "", zIndex |-> 5],
          [id |-> 303, startX |-> 375, startY |-> 250, endX |-> 375, endY |-> 350,
           startAnchor |-> [objectId |-> 102, position |-> "bottom"],
           endAnchor |-> NoAnchor, label |-> "", zIndex |-> 6]>>]

(* empty canvas, two points on the first sticky, a point beyond everything *)
GroupPoints ==
    {[x |-> 10, y |-> 10], [x |-> 110, y |-> 110], [x |-> 130, y |-> 150],
     [x |-> 520, y |-> 400]}

DeleteKeys == {"Delete", "ctrl+x"}

LoadGrouped ==
    /\ steps = 0
    /\ Commit(loadState(State, GroupedScene), "loadState", <<>>)

NextGroup ==
    /\ steps < MaxGroupSteps
    /\ \/ LoadGrouped
       \/ \E ptr \in DownPointers(GroupPoints) : MouseDown(ptr)
       \/ \E ptr \in MovePointers(GroupPoints) : MouseMove(ptr)
       \/ MouseUp
       \/ \E key \in DeleteKeys : KeyDown(key, [x |-> 0, y |-> 0])
       \/ EraserTool

SpecGroup == Init /\ [][NextGroup]_vars

(* the group's own box is the bounding box of its children *)
BoxIsUnion(s, r) ==
    LET g == s.oheap[r]
    IN  calculateBoundingBox(s, g.children) =
            <<[x |-> g.x, y |-> g.y, width |-> g.width, height |-> g.height]>>

(* the groups a pointer move has moved *)
DraggedGroups ==
    {r \in Range(objects) \cap Range(objects') :
        /\ oheap[r].type = "group"
        /\ last'.op = "handleMouseMove"
        /\ oheap'[r].x # oheap[r].x \/ oheap'[r].y # oheap[r].y}

(* C21: a drag that moves a group by (dx, dy) moves every child of the     *)
(* group by (dx, dy), and a group box that was the union of its children's *)
(* boxes is so after the drag.                                             *)
C21_GroupMoveCascades ==
    [][\A r \in DraggedGroups :
          LET dx == oheap'[r].x - oheap[r].x
              dy == oheap'[r].y - oheap[r].y
          IN  /\ \A i \in 1..Len(oheap[r].children) :
                    LET c == FindObj(State, oheap[r].children[i])
                    IN  c # NoRef =>
                          /\ oheap'[c].x = oheap[c].x + dx
                          /\ oheap'[c].y = oheap[c].y + dy
              /\ BoxIsUnion(State, r) => BoxIsUnion(State, r)']_vars

(* C22: a drag that moves a group by (dx, dy) moves the resolved start and *)
(* end point of every connector of the group that has no anchor at that    *)
(* end by (dx, dy).                                                        *)
C22_GroupMoveCarriesConnectors ==
    [][\A r \in DraggedGroups :
          LET dx == oheap'[r].x - oheap[r].x
              dy == oheap'[r].y - oheap[r].y
          IN  \A i \in 1..Len(oheap[r].connectorIds) :
                 LET c == FindConn(State, oheap[r].connectorIds[i])
                     before == resolveConnectorPoint(State, cheap[c], "start")
                     after == resolveConnectorPoint(State, cheap[c], "start")'
                 IN  (c # NoRef /\ cheap[c].startAnchor = NoAnchor) =>
                        after = [x |-> before.x + dx, y |-> before.y + dy]]_vars

----------------------------------------------------------------------------
(* An anchored connector while the object it is anchored to is moved by a  *)
(* drag, by a peer, by undo and redo, or is deleted                        *)

MaxAnchorSteps == 6

AnchorEvents ==
    {e \in InboundEvents :
        /\ Addressed(e)
        /\ e.eventType \in {"object_add", "object_move", "object_resize",
                            "object_delete"}}

NextAnchor ==
    /\ steps < MaxAnchorSteps
    /\ \/ LoadState
       \/ \E data \in AnchorEvents : PlatformEvent(data)
       \/ \E ptr \in ClickPointers(PointerPoints) : MouseDown(ptr)
       \/ \E ptr \in ClickPointers(PointerPoints) : MouseMove(ptr)
       \/ MouseUp
       \/ \E key \in EditKeys : KeyDown(key, [x |-> 0, y |-> 0])
    /\ State' # State

SpecAnchor == Init /\ [][NextAnchor]_vars

PointTypes == {"start", "end"}

AnchorOf(conn, pointType) ==
    IF pointType = "start" THEN conn.startAnchor ELSE conn.endAnchor

StoredPoint(conn, pointType) ==
    IF pointType = "start" THEN [x |-> conn.startX, y |-> conn.startY]
    ELSE [x |-> conn.endX, y |-> conn.endY]

(* the connectors a step leaves as they are *)
UntouchedConnectors ==
    {r \in Range(connectors) \cap Range(connectors') : cheap'[r] = cheap[r]}

(* C23: while a connector is left as it is, the end anchored to an object  *)
(* follows that object: when the object moves by (dx, dy) and keeps its    *)
(* size, the resolved point moves by (dx, dy); when the object is not      *)
(* found, the resolved point is the stored coordinate.                     *)
C23_AnchorFollowsObject ==
    [][\A r \in UntouchedConnectors : \A pt \in PointTypes :
          LET anchor == AnchorOf(cheap[r], pt)
              a == FindObj(State, anchor.objectId)
              b == FindObj(State, anchor.objectId)'
              before == resolveConnectorPoint(State, cheap[r], pt)
              after == resolveConnectorPoint(State, cheap[r], pt)'
          IN  anchor.objectId # 0 =>
                /\ (a # NoRef /\ b = a /\ oheap'[a].width = oheap[a].width
                        /\ oheap'[a].height = oheap[a].height) =>
                      after = [x |-> before.x + (oheap'[a].x - oheap[a].x),
                               y |-> before.y + (oheap'[a].y - oheap[a].y)]
                /\ b = NoRef => after = StoredPoint(cheap[r], pt)]_vars

(* undo has moved the sticky back, and the connector anchored to its right *)
(* side, stored while the sticky was elsewhere, ends at that side          *)
C23_Witness ==
    /\ last.op = "handleKeydown" /\ last.arg = "ctrl+z"
    /\ \E r \in Range(connectors) :
          LET a == FindObj(State, cheap[r].startAnchor.objectId)
          IN  /\ cheap[r].startAnchor.objectId # 0
              /\ a # NoRef
              /\ resolveConnectorPoint(State, cheap[r], "start")
                    = [x |-> oheap[a].x + oheap[a].width,
                       y |-> oheap[a].y + oheap[a].height \div 2]
              /\ resolveConnectorPoint(State, cheap[r], "start")
                    # StoredPoint(cheap[r], "start")

----------------------------------------------------------------------------
(* Deleting objects locally *)

ObjectIds(s) == {s.oheap[r].id : r \in Range(s.objects)}

(* the ids of the objects a local deletion has removed *)
LocallyRemovedIds ==
    IF IsLocalDelete(last'.op, last'.arg) THEN ObjectIds(State) \ ObjectIds(State)'
    ELSE {}

PublishedIn(box, eventType, id) ==
    \E i \in 1..Len(box) : box[i].eventType = eventType /\ box[i].payload.id = id

AnchoredTo(conn, id) ==
    conn.startAnchor.objectId = id \/ conn.endAnchor.objectId = id

(* C24: a local deletion (delete key, cut, eraser) that removes an object  *)
(* publishes its object_delete, leaves no connector anchored to it, and    *)
(* publishes a connector_delete for every connector that was.              *)
C24_LocalDeleteCascades ==
    [][\A id \in LocallyRemovedIds :
          /\ PublishedIn(outbox', "object_delete", id)
          /\ \A r \in Range(connectors') : ~AnchoredTo(cheap'[r], id)
          /\ \A r \in Range(connectors) :
                AnchoredTo(cheap[r], id) =>
                    PublishedIn(outbox', "connector_delete", cheap[r].id)]_vars

----------------------------------------------------------------------------
(* Copy and paste *)

PasteStep == /\ last'.op = "handleKeydown" /\ last'.arg = "ctrl+v"
             /\ ~editing.isEditingText

PasteOffset == 20

(* C25: with one object in the clipboard, the k-th paste since the copy    *)
(* appends one object, the clipboard's object moved by 20k in x and in y,  *)
(* under an id that neither the clipboard's object nor any object of the   *)
(* canvas has, and the clipboard's object is left as it was.               *)
C25_PasteOffsetStacks ==
    [][(PasteStep /\ Len(clipboard.objects) = 1 /\ clipboard.connectors = <<>>) =>
          LET orig == clipboard.objects[1]
              k == clipboard'.pasteCount
              new == oheap'[objects'[Len(objects')]]
          IN  /\ k = clipboard.pasteCount + 1
              /\ Len(objects') = Len(objects) + 1
              /\ new = [orig EXCEPT !.id = new.id, !.zIndex = new.zIndex,
                                    !.x = orig.x + PasteOffset * k,
                                    !.y = orig.y + PasteOffset * k]
              /\ new.id \notin ObjectIds(State) \cup {orig.id}
              /\ clipboard'.objects = clipboard.objects]_vars

(* the third paste of the saved sticky: copies at 20, 40 and 60 from it *)
C25_Witness ==
    /\ last.op = "handleKeydown" /\ last.arg = "ctrl+v"
    /\ clipboard.pasteCount = 3
    /\ Len(clipboard.objects) = 1
    /\ \A k \in 1..3 :
          \E r \in Range(objects) :
              /\ oheap[r].x = clipboard.objects[1].x + PasteOffset * k
              /\ oheap[r].y = clipboard.objects[1].y + PasteOffset * k
              /\ oheap[r].id # clipboard.objects[1].id
    /\ Cardinality(ObjectIds(State)) = Len(objects)

ClipboardIds == {clipboard.objects[i].id : i \in 1..Len(clipboard.objects)}

(* C26: a paste appends one copy per clipboard object and copies of the    *)
(* first clipboard connectors (all of them unless it fails); every child   *)
(* id of a pasted group whose object is in the clipboard is the id of that *)
(* object's copy, every pasted anchor whose object is in the clipboard     *)
(* points at that object's copy, and every floating end of a pasted        *)
(* connector is the clipboard's end moved by 20 times the paste count.     *)
C26_PasteRemapsAndOffsets ==
    [][PasteStep =>
          LET k == clipboard'.pasteCount
              n == Len(clipboard.objects)
              m == Len(connectors') - Len(connectors)
              offset == PasteOffset * k
              pastedObj(i) == oheap'[objects'[Len(objects) + i]]
              pastedConn(j) == cheap'[connectors'[Len(connectors) + j]]
              copyOf(id) ==
                  pastedObj(CHOOSE i \in 1..n : clipboard.objects[i].id = id).id
              remapped(id) == IF id \in ClipboardIds THEN copyOf(id) ELSE id
          IN  /\ Len(objects') = Len(objects) + n
              /\ m <= Len(clipboard.connectors)
              /\ \A i \in 1..n :
                    clipboard.objects[i].type = "group" =>
                      LET was == clipboard.objects[i].children
                          now == pastedObj(i).children
                      IN  /\ Len(now) = Len(was)
                          /\ \A c \in 1..Len(was) : now[c] = remapped(was[c])
              /\ \A j \in 1..m :
                    LET was == clipboard.connectors[j]
                        now == pastedConn(j)
                    IN  /\ was.startAnchor.objectId \in ClipboardIds =>
                              now.startAnchor.objectId = copyOf(was.startAnchor.objectId)
                        /\ was.endAnchor.objectId \in ClipboardIds =>
                              now.endAnchor.objectId = copyOf(was.endAnchor.objectId)
                        /\ was.startAnchor = NoAnchor =>
                              /\ now.startX = was.startX + offset
                              /\ now.startY = was.startY + offset
                        /\ was.endAnchor = NoAnchor =>
                              /\ now.endX = was.endX + offset
                              /\ now.endY = was.endY + offset]_vars

----------------------------------------------------------------------------
(* Marquee selection *)

MaxMarqueeSteps == 5

MarqueePoints ==
    {[x |-> 10, y |-> 10], [x |-> 50, y |-> 50], [x |-> 98, y |-> 98],
     [x |-> 101, y |-> 101], [x |-> 110, y |-> 110], [x |-> 520, y |-> 400]}

NextMarquee ==
    /\ steps < MaxMarqueeSteps
    /\ \/ LoadGrouped
       \/ \E ptr \in DownPointers(MarqueePoints) : MouseDown(ptr)
       \/ \E ptr \in MovePointers(MarqueePoints) : MouseMove(ptr)
       \/ MouseUp

SpecMarquee == Init /\ [][NextMarquee]_vars

(* the closed boxes share a point: the later left (top) edge is not past   *)
(* the earlier right (bottom) edge                                          *)
Later(a, b) == IF a > b THEN a ELSE b

Earlier(a, b) == IF a < b THEN a ELSE b

BoxesOverlap(obj, rect) ==
    /\ Later(obj.x, rect.x) <= Earlier(obj.x + obj.width, rect.x + rect.width)
    /\ Later(obj.y, rect.y) <= Earlier(obj.y + obj.height, rect.y + rect.height)

MarqueeReleased == gesture.isMarqueeSelecting /\ last'.op = "handleMouseUp"

OverlappedByMarquee ==
    {r \in Range(objects) : BoxesOverlap(oheap[r], getMarqueeRect(State))}

----------------------------------------------------------------------------
(* Inbound object_move *)

InboundMove ==
    /\ last'.op = "handlePlatformEvent"
    /\ Addressed(last'.arg)
    /\ last'.arg.eventType = "object_move"
    /\ IdCount(Scene.objects, last'.arg.payload.id) > 0

(* C28: an inbound object_move for an id the canvas holds leaves the       *)
(* number and the order of the objects as they were; the (first) object    *)
(* with that id gets the payload's value in every field of the payload and *)
(* keeps its value in every other field; no other object changes.          *)
C28_MoveMergesPayload ==
    [][InboundMove =>
          LET payload == last'.arg.payload
              old == Scene.objects
              new == Scene.objects'
              index == MinOf({i \in 1..Len(old) : old[i].id = payload.id})
          IN  /\ Len(new) = Len(old)
              /\ \A i \in 1..Len(old) : i # index => new[i] = old[i]
              /\ DOMAIN new[index] = DOMAIN old[index] \cup DOMAIN payload
              /\ \A f \in DOMAIN payload : new[index][f] = payload[f]
              /\ \A f \in DOMAIN old[index] \ DOMAIN payload :
                    new[index][f] = old[index][f]]_vars

(* a peer's move has been merged into a sticky that keeps its size, colour *)
(* and text and stands where the payload says                              *)
C28_Witness ==
    /\ HandledEvent
    /\ Addressed(last.arg)
    /\ last.arg.eventType = "object_move"
    /\ \E i \in 1..Len(Scene.objects) :
          LET obj == Scene.objects[i]
          IN  /\ obj.id = last.arg.payload.id
              /\ obj.x = last.arg.payload.x /\ obj.y = last.arg.payload.y
              /\ obj.x # RemoteSticky(obj.id).x
              /\ [obj EXCEPT !.x = 100, !.y = 100] = RemoteSticky(obj.id)

----------------------------------------------------------------------------
(* Inbound connector_update *)

MaxUpdateSteps == 5

UpdateEvents ==
    {e \in InboundEvents : Addressed(e) /\ e.eventType = "connector_update"}

NextUpdate ==
    /\ steps < MaxUpdateSteps
    /\ \/ LoadState
       \/ \E data \in UpdateEvents : PlatformEvent(data)
       \/ \E ptr \in DownPointers(PointerPoints) : MouseDown(ptr)
       \/ \E ptr \in MovePointers(PointerPoints) : MouseMove(ptr)
       \/ MouseUp

SpecUpdate == Init /\ [][NextUpdate]_vars

SelectedConnectorRefs == (Range(selectedConnectors) \cup {selectedConnector}) \ {NoRef}

LocalConnectorRefs == SelectedConnectorRefs \cup ({hoveredConnector} \ {NoRef})

InboundUpdateOfSelected ==
    /\ last'.op = "handlePlatformEvent"
    /\ Addressed(last'.arg)
    /\ last'.arg.eventType = "connector_update"
    /\ IdCount(Scene.connectors, last'.arg.payload.id) > 0
    /\ \E r \in SelectedConnectorRefs : cheap[r].id = last'.arg.payload.id

(* C29: after an inbound connector_update for a connector that is selected *)
(* (singly or in the multi-selection), every selection or hover reference  *)
(* to a connector of that id is the connector held in the connectors       *)
(* collection.                                                             *)
C29_ReferencesFollowUpdate ==
    [][InboundUpdateOfSelected =>
          \A r \in LocalConnectorRefs' :
              cheap'[r].id = last'.arg.payload.id => r \in Range(connectors')]_vars

----------------------------------------------------------------------------
(* The connected-users list *)

PollReturned ==
    /\ last'.op = "settle"
    /\ last'.arg.call = "getAllCursors"
    /\ last'.arg.ok

(* the store's answer is what the poll keeps as target cursors *)
CursorAge(id) == presence.now - presence.targetCursors[id].timestamp

(* C30: when a cursor poll returns, the connected users are exactly the    *)
(* users of the returned store whose timestamp is less than 60000 ms       *)
(* before the time of the poll; a user 60000 ms old or older is kept among *)
(* the cursors and is not listed.                                          *)
C30_ConnectedUsersAreFresh ==
    [][PollReturned =>
          /\ presence'.connectedUsers \subseteq DOMAIN presence'.targetCursors
          /\ \A id \in DOMAIN presence'.targetCursors :
                /\ CursorAge(id)' < 60000 => id \in presence'.connectedUsers
                /\ CursorAge(id)' >= 60000 => id \notin presence'.connectedUsers]_vars

(* a poll has returned a peer whose cursor is exactly 60000 ms old: the    *)
(* cursor is kept and the peer is not listed                               *)
C30_Witness ==
    /\ last.op = "settle" /\ last.arg.call = "getAllCursors" /\ last.arg.ok
    /\ Peer \in DOMAIN presence.targetCursors
    /\ CursorAge(Peer) = 60000
    /\ Peer \notin presence.connectedUsers

----------------------------------------------------------------------------
(* The shared z-order *)

ZIndexes(s) ==
    {s.oheap[r].zIndex : r \in Range(s.objects)}
        \cup {s.cheap[r].zIndex : r \in Range(s.connectors)}

ConnectorIds(s) == {s.cheap[r].id : r \in Range(s.connectors)}

(* a local operation that makes elements (history replays bring back old   *)
(* ones and are not creations)                                             *)
LocalCreation ==
    /\ last'.op \in {"addSticky", "handleKeydown"}
    /\ last'.op = "handleKeydown" => last'.arg \notin {"ctrl+z", "ctrl+y"}

CreatedObjects == {r \in Range(objects') : oheap'[r].id \notin ObjectIds(State)}

CreatedConnectors ==
    {r \in Range(connectors') : cheap'[r].id \notin ConnectorIds(State)}

CreatedZIndexes ==
    {oheap'[r].zIndex : r \in CreatedObjects}
        \cup {cheap'[r].zIndex : r \in CreatedConnectors}

ConnectorStarted == gesture.currentConnector = <<>> /\ gesture'.currentConnector # <<>>

(* C31: getNextZIndex is the greatest zIndex of the objects and connectors *)
(* plus 1 (1 for an empty scene); every object or connector that a local   *)
(* creation or paste adds, and every connector a gesture starts, gets a    *)
(* zIndex greater than that of every object and connector in the scene at  *)
(* that moment, and the elements of one paste get different ones.          *)
C31_NewElementsOnTop ==
    [][/\ \A z \in ZIndexes(State) : GetNextZIndex(State) > z
       /\ GetNextZIndex(State) = 1 \/ GetNextZIndex(State) - 1 \in ZIndexes(State)
       /\ LocalCreation =>
             /\ \A new \in CreatedZIndexes : \A z \in ZIndexes(State) : new > z
             /\ Cardinality(CreatedZIndexes)
                   = Cardinality(CreatedObjects) + Cardinality(CreatedConnectors)
       /\ ConnectorStarted =>
             \A z \in ZIndexes(State) : gesture'.currentConnector[1].zIndex > z]_vars

(* a paste has put a sticky and a connector above a scene whose top        *)
(* element was a connector                                                 *)
C31_Witness ==
    /\ last.op = "handleKeydown" /\ last.arg = "ctrl+v"
    /\ \E o \in Range(objects), c \in Range(connectors), top \in Range(connectors) :
          /\ cheap[top].id = 301
          /\ \A r \in Range(objects) : oheap[r].id = 101 => oheap[r].zIndex < cheap[top].zIndex
          /\ oheap[o].zIndex = cheap[top].zIndex + 1
          /\ cheap[c].zIndex = cheap[top].zIndex + 2

----------------------------------------------------------------------------
(* Stepping an element through the layers *)

MaxLayerSteps == 6

(* the layer buttons sit in the toolbar: no canvas gesture is under way *)
BringForward ==
    /\ ~editing.isEditingText
    /\ ~GestureActive
    /\ Commit(handleBringForward(State), "handleBringForward", <<>>)

SendBackward ==
    /\ ~editing.isEditingText
    /\ ~GestureActive
    /\ Commit(handleSendBackward(State), "handleSendBackward", <<>>)

NextLayer ==
    /\ steps < MaxLayerSteps
    /\ \/ LoadGrouped
       \/ \E ptr \in ClickPointers(GroupPoints) : MouseDown(ptr)
       \/ MouseUp
       \/ BringForward
       \/ SendBackward

SpecLayer == Init /\ [][NextLayer]_vars

ZAfter(e) == IF e[1] = "object" THEN oheap'[e[2]].zIndex ELSE cheap'[e[2]].zIndex

(* the selected element and one element that stood at zIndex currentZ +    *)
(* step have exchanged their values; nothing else has moved                *)
SwappedWithNeighbour(step) ==
    LET all == AllElements(State)
        selected == SelectedElement(State)
        currentZ == ElementZ(State, selected)
    IN  /\ objects' = objects /\ connectors' = connectors
        /\ ZAfter(selected) = currentZ + step
        /\ \E i \in 1..Len(all) :
              /\ all[i] # selected
              /\ ElementZ(State, all[i]) = currentZ + step
              /\ ZAfter(all[i]) = currentZ
              /\ \A j \in 1..Len(all) :
                    (j # i /\ all[j] # selected) =>
                        ZAfter(all[j]) = ElementZ(State, all[j])

NeighbourAt(step) ==
    /\ selectedObject # NoRef \/ selectedConnector # NoRef
    /\ \E i \in 1..Len(AllElements(State)) :
          ElementZ(State, AllElements(State)[i])
              = ElementZ(State, SelectedElement(State)) + step

(* C32: a bring-forward of a selected element that has an element at its   *)
(* zIndex plus 1 exchanges the zIndex values of the two and changes no     *)
(* other element's zIndex; a send-backward does the same with the element  *)
(* at its zIndex minus 1.                                                  *)
C32_LayerStepSwaps ==
    [][/\ (last'.op = "handleBringForward" /\ NeighbourAt(1))
            => SwappedWithNeighbour(1)
       /\ (last'.op = "handleSendBackward" /\ NeighbourAt(-1))
            => SwappedWithNeighbour(-1)]_vars

(* the group, brought forward and sent back again, stands at 4 as before   *)
(* with connector 302 above it and connector 301 below it                  *)
C32_Witness ==
    /\ last.op = "handleSendBackward"
    /\ steps = 5
    /\ selectedObject # NoRef
    /\ oheap[selectedObject].id = 111
    /\ oheap[selectedObject].zIndex = 4
    /\ \E a, b \in Range(connectors) :
          /\ cheap[a].id = 302 /\ cheap[a].zIndex = 5
          /\ cheap[b].id = 301 /\ cheap[b].zIndex = 3

----------------------------------------------------------------------------
(* The two history stacks together *)

----------------------------------------------------------------------------
(* Undoing the move of a group *)

MaxGroupUndoSteps == 5

NextGroupUndo ==
    /\ steps < MaxGroupUndoSteps
    /\ \/ LoadGrouped
       \/ \E ptr \in DownPointers(GroupPoints) : MouseDown(ptr)
       \/ \E ptr \in MovePointers(GroupPoints) : MouseMove(ptr)
       \/ MouseUp
       \/ KeyDown("ctrl+z", [x |-> 0, y |-> 0])

SpecGroupUndo == Init /\ [][NextGroupUndo]_vars

(* the mouse-up before this step recorded the move of a group, which this  *)
(* step undoes by the keyboard                                             *)
UndoesGroupMove ==
    /\ last.op = "handleMouseUp" /\ last.recorded > 0
    /\ Len(undoStack) > 0
    /\ undoStack[Len(undoStack)].type = "object_move"
    /\ \E r \in Range(objects) :
          /\ oheap[r].id = undoStack[Len(undoStack)].data.objectId
          /\ oheap[r].type = "group"
    /\ last'.op = "handleKeydown" /\ last'.arg = "ctrl+z"

(* C34: undoing the move of a group that was just dragged by (dx, dy) puts *)
(* the group back at the position the drag started from and every child of *)
(* the group back by (dx, dy), where the drag had taken it from.           *)
C34_UndoGroupMoveRestoresChildren ==
    [][UndoesGroupMove =>
          LET data == undoStack[Len(undoStack)].data
              g == CHOOSE r \in Range(objects) : oheap[r].id = data.objectId
              dx == oheap[g].x - data.previousX
              dy == oheap[g].y - data.previousY
              children == {r \in Range(objects) :
                              oheap[r].id \in Range(oheap[g].children)}
          IN  /\ oheap'[g].x = data.previousX /\ oheap'[g].y = data.previousY
              /\ \A c \in children :
                    /\ c \in Range(objects')
                    /\ oheap'[c].x = oheap[c].x - dx
                    /\ oheap'[c].y = oheap[c].y - dy]_vars

----------------------------------------------------------------------------
(* Undo and redo of an action whose entity is gone *)

(* the entity an undo of the action looks up: <<collection, id>> *)
UndoTarget(action) ==
    CASE action.type \in {"object_add", "object_move", "object_resize", "object_text"}
            -> <<"objects", action.data.objectId>>
      [] action.type = "connector_add" -> <<"connectors", action.data.connectorId>>
      [] action.type = "stroke_add" -> <<"strokes", action.data.strokeId>>
      [] action.type = "group_create" -> <<"objects", action.data.groupId>>
      [] OTHER -> <<>>

RedoTarget(action) ==
    CASE action.type \in {"object_delete", "object_move", "object_resize",
                          "object_text"}
            -> <<"objects", action.data.objectId>>
      [] action.type = "connector_delete" -> <<"connectors", action.data.connectorId>>
      [] action.type = "stroke_delete" -> <<"strokes", action.data.strokeId>>
      [] action.type = "group_ungroup" -> <<"objects", action.data.groupId>>
      [] OTHER -> <<>>

TargetMissing(target) ==
    target # <<>> /\ IdCount(Scene[target[1]], target[2]) = 0

UndoOfMissing ==
    /\ ~editing.isEditingText
    /\ \/ last'.op = "handleUndo"
       \/ last'.op = "handleKeydown" /\ last'.arg = "ctrl+z"
    /\ Len(undoStack) > 0
    /\ TargetMissing(UndoTarget(undoStack[Len(undoStack)]))

RedoOfMissing ==
    /\ ~editing.isEditingText
    /\ \/ last'.op = "handleRedo"
       \/ last'.op = "handleKeydown" /\ last'.arg = "ctrl+y"
    /\ Len(redoStack) > 0
    /\ TargetMissing(RedoTarget(redoStack[Len(redoStack)]))

(* C35: an undo whose action names an entity the scene no longer holds     *)
(* leaves objects, strokes and connectors as they were, publishes nothing, *)
(* takes the action off the undo stack and leaves the redo stack alone; a  *)
(* redo does the same with the stacks exchanged.                           *)
C35_MissingTargetIsDropped ==
    [][/\ UndoOfMissing =>
             /\ Scene' = Scene
             /\ outbox' = <<>>
             /\ undoStack' = SubSeq(undoStack, 1, Len(undoStack) - 1)
             /\ redoStack' = redoStack
       /\ RedoOfMissing =>
             /\ Scene' = Scene
             /\ outbox' = <<>>
             /\ redoStack' = SubSeq(redoStack, 1, Len(redoStack) - 1)
             /\ undoStack' = undoStack]_vars

(* the sticky was dragged, a peer deleted it, and the undo of the drag has *)
(* dropped the recorded move                                               *)
C35_Witness ==
    /\ last.op = "handleKeydown" /\ last.arg = "ctrl+z"
    /\ hist.recorded > 0
    /\ undoStack = <<>> /\ redoStack = <<>>
    /\ objects = <<>>
    /\ steps = 6

----------------------------------------------------------------------------
(* Anchors and the objects they name *)

(* C36: in every reachable state each start or end anchor of a connector   *)
(* of the canvas names an object that the objects collection holds.        *)
C36_AnchorsNameObjects ==
    \A r \in Range(connectors) :
        \A anchor \in {cheap[r].startAnchor, cheap[r].endAnchor} :
            anchor # NoAnchor => anchor.objectId \in ObjectIds(State)

----------------------------------------------------------------------------
(* Single selection against multi-selection *)

(* C37: in every reachable state selectedObject and selectedConnector are  *)
(* not both set, and when one of them is set selectedObjects and           *)
(* selectedConnectors are both empty.                                      *)
C37_SelectionModesExclusive ==
    /\ ~(selectedObject # NoRef /\ selectedConnector # NoRef)
    /\ (selectedObject # NoRef \/ selectedConnector # NoRef) =>
          selectedObjects = <<>> /\ selectedConnectors = <<>>

(* a multi-selection has just been grouped: the group alone is selected *)
C37_Witness ==
    /\ last.op = "handleKeydown" /\ last.arg = "g"
    /\ last.recorded > 0
    /\ selectedObject # NoRef
    /\ oheap[selectedObject].type = "group"
    /\ Len(oheap[selectedObject].children) + Len(oheap[selectedObject].connectorIds) >= 2
    /\ selectedObjects = <<>> /\ selectedConnectors = <<>>
    /\ selectedConnector = NoRef


----------------------------------------------------------------------------
(* Releasing the pointer after the selection was cleared *)

MaxResizeSteps == 7

(* inside sticky 101, on its south-east handle, and two grid cells further *)
ResizePoints ==
    {[x |-> 110, y |-> 110], [x |-> 250, y |-> 250], [x |-> 290, y |-> 290]}

NextResize ==
    /\ steps < MaxResizeSteps
    /\ \/ LoadState
       \/ \E ptr \in ClickPointers(ResizePoints) : MouseDown(ptr)
       \/ \E ptr \in ClickPointers(ResizePoints) : MouseMove(ptr)
       \/ MouseUp
       \/ KeyDown("Escape", [x |-> 0, y |-> 0])

SpecResize == Init /\ [][NextResize]_vars

(* C38: after every mouse-up or mouse-leave no gesture is armed: panning,  *)
(* dragging, multi-dragging, drawing, connecting, resizing and marquee     *)
(* selection are all off, also when the selection was cleared while the    *)
(* gesture was under way.                                                  *)
C38_MouseUpDisarmsGestures ==
    last.op = "handleMouseUp" => ~GestureActive


----------------------------------------------------------------------------
(* The reload that follows the join announcement *)

MaxRejoinSteps == 4

Reloaded == last.op = "loadState"

(* The canvas is initialized, which announces the join; the user and the   *)
(* peer add to the scene; the timer set by announceJoin reloads the state  *)
(* once.  Nobody has saved in between: the reload finds the saved scene.   *)
NextRejoin ==
    /\ steps < MaxRejoinSteps
    /\ ~Reloaded
    /\ \/ \E loaded \in BOOLEAN : InitializeCanvas(TRUE, loaded)
       \/ \E pos \in Positions : AddSticky(pos)
       \/ \E data \in AddEvents : PlatformEvent(data)
       \/ \E loaded \in BOOLEAN : Reload(loaded)

SpecRejoin == Init /\ [][NextRejoin]_vars

StrokeIds(s) == {s.strokes[i].id : i \in 1..Len(s.strokes)}

SavedIds ==
    [objects    |-> {SavedScene.objects[i].id : i \in 1..Len(SavedScene.objects)},
     strokes    |-> {SavedScene.strokes[i].id : i \in 1..Len(SavedScene.strokes)},
     connectors |-> {SavedScene.connectors[i].id :
                        i \in 1..Len(SavedScene.connectors)}]

(* C39: the reload after the join removes no entity that was created here  *)
(* or added by a peer since the join was announced.  The scene held        *)
(* nothing but the saved entities when the join was announced, so these    *)
(* are the entities whose id the saved scene does not hold.                *)
C39_ReloadKeepsNewEntities ==
    [][last'.op = "loadState" =>
          /\ ObjectIds(State) \ SavedIds.objects \subseteq ObjectIds(State)'
          /\ StrokeIds(State) \ SavedIds.strokes \subseteq StrokeIds(State)'
          /\ ConnectorIds(State) \ SavedIds.connectors
                \subseteq ConnectorIds(State)']_vars


----------------------------------------------------------------------------
(* The spacing of cursor sends *)

(* C40: a pointer move that issues an updateCursor call does so more than  *)
(* 50ms after the call issued before it, also while that earlier call is   *)
(* still under way.                                                        *)
C40_CursorSendsSpaced ==
    [][(last'.op = "handleMouseMove" /\ CursorSends = 1 /\ presence.issued # <<>>) =>
          presence'.issued[1].at - presence.issued[1].at
              > CURSOR_UPDATE_THROTTLE]_vars

=============================================================================
